---------------------------- MODULE Spec2Model ----------------------------
(***************************************************************************)
(* A model of ProtoObject (src/src/classes/proto-object.ts): the deep      *)
(* reconciliation engine (recursiveAssign / deepAssign / assign), the      *)
(* base JSON normalisation (toJSON / fromJSON) and copy(), over an         *)
(* explicit JavaScript heap with object identity, property descriptors,    *)
(* insertion-ordered keys and strict-mode write failures.                  *)
(***************************************************************************)
EXTENDS Integers, Sequences, FiniteSets, TLC

VARIABLES
    heap,    \* the object heap: a sequence of objects, the address is the index
    pre,     \* the heap as it was before the last operation
    tgt,     \* the first operand (obj / this) of the operations
    src,     \* the second operand (data) of the operations
    ret,     \* the value the last operation returned
    ex,      \* the exception the last operation raised, "none" when it returned
    op,      \* the last operation
    arg,     \* the class the last operation was called on, "" when on none
    steps,   \* the number of operations performed so far
    xin,     \* the argument given to a collection transformer
    xval,    \* the validator the collection transformer was made with
    xout,    \* what the collection transformer returned
    db,      \* the SQLite table users: for every id its row, or no row
    inst,    \* the ProtoObjectSQLite instances the program holds
    clock,   \* the time new Date() gives
    pc,      \* for every instance, where its pending save() is suspended
    live,    \* the ids inserted successfully and not hard deleted since
    got,     \* what the last getById or exists returned
    who,     \* the instance the last SQLite operation was called on
    store,   \* window.localStorage: its items, in the order key(i) gives
    env,     \* what the program finds in place of window.localStorage
    saved,   \* for every key, what was stored under it and not removed since
    lskey,   \* the key or prefix given to the last storage operation
    lsout,   \* what the last storage operation returned
    cobj,    \* a ProtoObjectCrypto instance: its class, data field and _hash
    kept,    \* the hash the program took from generateHash, and the data then
    cout,    \* what the last method of the ProtoObjectCrypto instance returned
    clients, \* ProtoObjectTCPServer.clients: the ids the server has a socket for
    socket,  \* for every ProtoObjectTCPClient, its field socket
    link,    \* for every client, the state of its connection to the server
    up,      \* for every client, the bytes it wrote that the server has not read
    down,    \* for every client, the bytes written to it that it has not read
    messageBuffer, \* for every ProtoObjectTCPClient, its field messageBuffer
    wrote,   \* for every client, the payloads it wrote on this connection
    heard,   \* for every client, how many of its bytes the server has read
    served,  \* for every client, the payloads written to it on this connection
    seen,    \* for every client, how many of these bytes it has read
    stale,   \* for every client, the bytes its buffer held when it connected
    srvmsgs, \* for every client id, the 'message' events the server emitted
    climsgs, \* for every client, the 'message' events it emitted
    tcpret   \* what the last call on the server or on a client returned

\* the variables of the collection transformer
xvars == <<xin, xval, xout>>

\* the variables of the SQLite persistence
sqlvars == <<db, inst, clock, pc, live, got, who>>

\* the variables of the object engine
corevars == <<heap, pre, tgt, src, ret, arg>>

\* the variables of the localStorage utility
lsvars == <<store, env, saved, lskey, lsout>>

\* the variables of ProtoObjectCrypto
cryptovars == <<cobj, kept, cout>>

\* the variables of the TCP server and its clients
tcpvars ==
    <<clients, socket, link, up, down, messageBuffer, wrote, heard, served,
      seen, stale, srvmsgs, climsgs, tcpret>>

\* the variables of the utilities around the object engine
restvars == <<lsvars, cryptovars, tcpvars>>

vars ==
    <<heap, pre, tgt, src, ret, ex, op, arg, steps, xin, xval, xout,
      db, inst, clock, pc, live, got, who,
      store, env, saved, lskey, lsout, cobj, kept, cout,
      clients, socket, link, up, down, messageBuffer, wrote, heard, served,
      seen, stale, srvmsgs, climsgs, tcpret>>

----------------------------------------------------------------------------
(* Bounds *)

\* operations performed in one run
MaxSteps == 2
\* nested recursiveAssign frames before the engine's call stack overflows
MaxDepth == 6
\* items in an array given to a collection transformer
MaxLen == 3
\* SQLite operations performed in one run
MaxOps == 3
\* the latest time the clock shows
MaxClock == 2
\* localStorage operations performed in one run
MaxStoreOps == 3
\* ProtoObjectCrypto operations performed in one run
MaxHashOps == 4
\* calls on the TCP server and its clients in one run
MaxTcpOps == 4

----------------------------------------------------------------------------
(* JavaScript values: a kind and a payload.  For kind "object" the payload *)
(* is a heap address; for the other kinds it names the primitive.  In      *)
(* kinds "number", "string" and "boolean" payload 0 is the falsy value     *)
(* (0, "", false).                                                         *)

Undef == [k |-> "undefined", v |-> 0]
Null == [k |-> "null", v |-> 0]
Num(n) == [k |-> "number", v |-> n]
Str(n) == [k |-> "string", v |-> n]
Bool(n) == [k |-> "boolean", v |-> n]
Ref(a) == [k |-> "object", v |-> a]

PrimKinds == {"boolean", "number", "string", "bigint", "symbol", "function"}

\* two values of every primitive kind
Prims == [k : PrimKinds, v : {0, 1}]

IsRef(x) == x.k = "object"

Keys == {"country", "address"}

None == "none"

----------------------------------------------------------------------------
(* Classes: the constructor an object was made by. *)

\* ProtoObject heirs; FactoryA and FactoryB are the classes two separate
\* protoObjectFactory calls return, both named CProtoObject
EntityClasses == {"UserAddress", "FactoryA", "FactoryB"}

\* NullProto is an object without a prototype (no constructor property)
Classes == {"Object", "Array", "Date", "NullProto"} \cup EntityClasses

\* typeof x.constructor === "function"
HasConstructor(c) == c # "NullProto"

\* x.constructor?.name ("" stands for undefined)
ConstructorName(c) ==
    CASE c = "NullProto" -> ""
      [] c \in {"FactoryA", "FactoryB"} -> "CProtoObject"
      [] OTHER -> c

\* x instanceof ProtoObject
InstanceOfProtoObject(c) == c \in EntityClasses

----------------------------------------------------------------------------
(* Objects and property descriptors *)

Absent == [has |-> FALSE, val |-> Undef, acc |-> FALSE, enum |-> FALSE, wr |-> FALSE]

\* an ordinary data property, as created by an assignment or an object literal
DataProp(x) == [has |-> TRUE, val |-> x, acc |-> FALSE, enum |-> TRUE, wr |-> TRUE]

\* Object.defineProperty(o, k, {value: x, enumerable, writable})
DefinedProp(x, e, w) == [has |-> TRUE, val |-> x, acc |-> FALSE, enum |-> e, wr |-> w]

\* Object.defineProperty(o, k, {get, set, enumerable})
AccessorProp(e) == [has |-> TRUE, val |-> Undef, acc |-> TRUE, enum |-> e, wr |-> FALSE]

NoProps == [k \in Keys |-> Absent]

NewObject(c) == [cls |-> c, ext |-> TRUE, order |-> <<>>, props |-> NoProps]

\* typeof
TypeOf(x) == IF x.k = "null" THEN "object" ELSE x.k

\* a test that lets every value but undefined and null through
TruthyUnlessAbsent(x) == x.k \notin {"undefined", "null"}

\* the truthiness test of `if (value)`
Truthy(x) ==
    CASE x.k \in {"undefined", "null"} -> FALSE
      [] x.k \in {"boolean", "number", "string", "bigint"} -> x.v # 0
      [] OTHER -> TRUE

Ok(h, r) == [h |-> h, r |-> r, ex |-> None]
Throw(h, e) == [h |-> h, r |-> Undef, ex |-> e]

\* o[k]: the own property's value; none of the model's keys is inherited
Get(h, a, k) == IF h[a].props[k].has THEN h[a].props[k].val ELSE Undef

\* o[k] = x in strict mode
Set(h, a, k, x) ==
    LET p == h[a].props[k] IN
    IF p.has
    THEN IF p.acc
         THEN Ok(h, x)                      \* the setter runs; no slot changes
         ELSE IF ~p.wr
              THEN Throw(h, "TypeError")
              ELSE Ok([h EXCEPT ![a].props[k].val = x], x)
    ELSE IF ~h[a].ext
         THEN Throw(h, "TypeError")
         ELSE Ok([h EXCEPT ![a].props[k] = DataProp(x),
                           ![a].order = Append(@, k)], x)


\* the address a new object gets
NextAddr(h) == Len(h) + 1

Alloc(h, c) == Append(h, NewObject(c))

----------------------------------------------------------------------------
(* Property introspection *)

\* getProperties stopping one key short
getPropertiesOneShort(h, a) ==
    LET ks == SelectSeq(h[a].order,
                        LAMBDA k : h[a].props[k].has /\ h[a].props[k].enum)
    IN  IF ks = <<>> THEN ks ELSE SubSeq(ks, 1, Len(ks) - 1)

\* getProperties: for...in visits the enumerable string keys in insertion
\* order; getOwnPropertyDescriptor keeps the own ones
getProperties(h, a) ==
    SelectSeq(h[a].order, LAMBDA k : h[a].props[k].has /\ h[a].props[k].enum)

\* getEnumerableProperties with onlyWritable false
getEnumerableProperties(h, a) ==
    SelectSeq(getProperties(h, a),
              LAMBDA k : ~h[a].props[k].acc /\ h[a].props[k].enum)

----------------------------------------------------------------------------
(* The tests of recursiveAssign, in the order the code makes them *)

\* x?.constructor?.name ("" stands for undefined)
NameOf(h, x) ==
    CASE x.k = "object" -> ConstructorName(h[x.v].cls)
      [] x.k \in {"undefined", "null"} -> ""
      [] x.k = "bigint" -> "BigInt"
      [] x.k = "boolean" -> "Boolean"
      [] x.k = "function" -> "Function"
      [] x.k = "number" -> "Number"
      [] x.k = "string" -> "String"
      [] OTHER -> "Symbol"

\* x instanceof ProtoObject
IsEntity(h, x) == IsRef(x) /\ InstanceOfProtoObject(h[x.v].cls)

\* SourceWins without the guard that lets an undefined source through
SourceWinsAlsoUndefined(obj, data) ==
    \/ obj.k = "undefined"
    \/ obj.k = "null"
    \/ TypeOf(obj) # TypeOf(data)

\* SourceWins without the test for a null target
SourceWinsNotNull(obj, data) ==
    \/ obj.k = "undefined"
    \/ (data.k # "undefined" /\ TypeOf(obj) # TypeOf(data))

\* lines 86-90: the target is absent, or the typeof's differ
SourceWins(obj, data) ==
    \/ obj.k = "undefined"
    \/ obj.k = "null"
    \/ (data.k # "undefined" /\ TypeOf(obj) # TypeOf(data))

\* IsNull with the test left out
IsNullNever(data) == FALSE

\* line 92: data === null
IsNull(data) == data.k = "null"

\* IsPrimitive with the cases "bigint" and "symbol" left out
IsPrimitiveNoSymbol(data) == data.k \in PrimKinds \ {"bigint", "symbol"}

\* lines 96-102: the typeof's whose values are returned as they are
IsPrimitive(data) == data.k \in PrimKinds

\* line 104: Array.isArray(data)
IsArray(h, data) == IsRef(data) /\ h[data.v].cls = "Array"

\* IsForeignEntity with the test left out
IsForeignEntityNever(h, obj, data) == FALSE

\* the test of lines 107-112 comparing the constructors, not their names
IsForeignEntityByClass(h, obj, data) ==
    /\ IsEntity(h, data)
    /\ (~IsRef(obj) \/ h[obj.v].cls # h[data.v].cls)

\* lines 107-110: an entity whose constructor name is not the target's
IsForeignEntity(h, obj, data) ==
    /\ IsEntity(h, data)
    /\ NameOf(h, data) # NameOf(h, obj)

\* IsOpaque with the test left out
IsOpaqueNever(h, data) == FALSE

\* lines 113-117: a non-entity made by a constructor not named Object
IsOpaque(h, data) ==
    /\ ~IsEntity(h, data)
    /\ IsRef(data) /\ HasConstructor(h[data.v].cls)
    /\ NameOf(h, data) # "Object"

\* SlotWritable without the test of origProp.enumerable
SlotWritableHidden(origProp) ==
    \/ ~origProp.has
    \/ (~origProp.acc /\ origProp.wr)

\* lines 125-131: the target's slot may be written
SlotWritable(origProp) ==
    \/ ~origProp.has
    \/ (~origProp.acc /\ origProp.enum /\ origProp.wr)

\* valueToJSON and valueFromJSON: the primitive whitelist
valueToJSON(x) == IF x.k \in {"boolean", "number", "string"} THEN x ELSE Undef

\* valueFromJSON letting only numbers through
valueFromJSONNumbersOnly(x) == IF x.k = "number" THEN x ELSE Undef

\* valueFromJSON (lines 184-193)
valueFromJSON(x) == IF x.k \in {"boolean", "number", "string"} THEN x ELSE Undef

----------------------------------------------------------------------------
(* The engine.  Every operator takes a heap and returns [h, r, ex]: the    *)
(* heap afterwards, the value returned and the exception raised.  fuel is  *)
(* the number of recursiveAssign frames the call stack still has room for. *)

RECURSIVE recursiveAssign(_, _, _, _)
RECURSIVE AssignProps(_, _, _, _, _, _)
RECURSIVE AssignObject(_, _, _, _)
RECURSIVE Construct(_, _, _, _)

\* toJSON of the base class (lines 219-231): a new bag holding the own
\* enumerable data properties whose whitelisted value is truthy
RECURSIVE JSONProps(_, _, _, _, _)
JSONProps(h, from, into, ks, i) ==
    IF i > Len(ks) THEN h
    ELSE LET value == valueToJSON(h[from].props[ks[i]].val) IN
         IF Truthy(value)
         THEN JSONProps(Set(h, into, ks[i], value).h, from, into, ks, i + 1)
         ELSE JSONProps(h, from, into, ks, i + 1)

toJSON(h, a) ==
    LET json == NextAddr(h) IN
    Ok(JSONProps(Alloc(h, "Object"), a, json, getEnumerableProperties(h, a), 1),
       Ref(json))

\* the loop of fromJSON (lines 207-210) over the keys for...in visits
RECURSIVE FromJSONProps(_, _, _, _, _)
FromJSONProps(h, from, into, ks, i) ==
    IF i > Len(ks) THEN h
    ELSE LET value == valueFromJSON(Get(h, from, ks[i])) IN
         IF Truthy(value)
         THEN FromJSONProps(Set(h, into, ks[i], value).h, from, into, ks, i + 1)
         ELSE FromJSONProps(h, from, into, ks, i + 1)

\* fromJSON of the base class, called on class c (lines 201-212)
fromJSON(h, c, data, fuel) ==
    LET json == NextAddr(h)
        h1 == FromJSONProps(Alloc(h, "Object"), data, json,
                            getProperties(h, data), 1)
    IN  Construct(h1, c, Ref(json), fuel)

\* copy (lines 247-250)
copy(h, a, fuel) ==
    LET j == toJSON(h, a) IN fromJSON(j.h, h[a].cls, j.r.v, fuel)

\* deepAssign (lines 153-159): data ?? {}
deepAssign(h, obj, data, fuel) ==
    IF data.k \in {"undefined", "null"}
    THEN recursiveAssign(Alloc(h, "Object"), obj, Ref(NextAddr(h)), fuel)
    ELSE recursiveAssign(h, obj, data, fuel)

\* assign (lines 258-261)
assign(h, this, data, fuel) == deepAssign(h, Ref(this), data, fuel)

\* the loop of lines 120-139 over the source's properties, from the i-th on
AssignProps(h, obj, data, ks, i, fuel) ==
    IF i > Len(ks) THEN Ok(h, obj)
    ELSE IF ~IsRef(obj) THEN Throw(h, "TypeError")
    ELSE IF ~SlotWritable(h[obj.v].props[ks[i]])
         THEN AssignProps(h, obj, data, ks, i + 1, fuel)
         ELSE LET sub == recursiveAssign(h, Get(h, obj.v, ks[i]),
                                         Get(h, data, ks[i]), fuel - 1)
              IN  IF sub.ex # None THEN sub
                  ELSE LET w == Set(sub.h, obj.v, ks[i], sub.r) IN
                       IF w.ex # None THEN w
                       ELSE AssignProps(w.h, obj, data, ks, i + 1, fuel)

\* AssignObject without the Array.isArray test, arrays merged like bags
AssignObjectMergingArrays(h, obj, data, fuel) ==
    IF IsForeignEntity(h, obj, data) THEN copy(h, data.v, fuel - 1)
    ELSE IF data.k = "null" THEN Throw(h, "TypeError")
    ELSE IF IsOpaque(h, data) /\ ~IsArray(h, data) THEN Ok(h, data)
    ELSE AssignProps(h, obj, data.v, getEnumerableProperties(h, data.v), 1, fuel)

\* case "object" (lines 103-141); reading null.constructor raises
AssignObject(h, obj, data, fuel) ==
    IF IsArray(h, data) THEN Ok(h, data)
    ELSE IF IsForeignEntity(h, obj, data) THEN copy(h, data.v, fuel - 1)
    ELSE IF data.k = "null" THEN Throw(h, "TypeError")
    ELSE IF IsOpaque(h, data) THEN Ok(h, data)
    ELSE AssignProps(h, obj, data.v, getEnumerableProperties(h, data.v), 1, fuel)

\* recursiveAssign taking a copy of an entity that meets an absent target
recursiveAssignCopying(h, obj, data, fuel) ==
    IF fuel = 0 THEN Throw(h, "RangeError")
    ELSE IF SourceWins(obj, data)
         THEN IF IsEntity(h, data) THEN copy(h, data.v, fuel - 1)
              ELSE Ok(h, data)
    ELSE IF IsNull(data) THEN Ok(h, data)
    ELSE IF data.k = "undefined" THEN Ok(h, obj)
    ELSE IF IsPrimitive(data) THEN Ok(h, data)
    ELSE IF TypeOf(data) = "object" THEN AssignObject(h, obj, data, fuel)
    ELSE Ok(h, obj)

\* recursiveAssign (lines 81-144)
recursiveAssign(h, obj, data, fuel) ==
    IF fuel = 0 THEN Throw(h, "RangeError")
    ELSE IF SourceWins(obj, data) THEN Ok(h, data)
    ELSE IF IsNull(data) THEN Ok(h, data)
    ELSE IF data.k = "undefined" THEN Ok(h, obj)
    ELSE IF IsPrimitive(data) THEN Ok(h, data)
    ELSE IF TypeOf(data) = "object" THEN AssignObject(h, obj, data, fuel)
    ELSE Ok(h, obj)

\* what `new` makes of the value a constructor returns: an object replaces
\* the instance, anything else is ignored
NewResult(this, r) == IF r.k \in {"object", "function"} THEN r ELSE Ref(this)

\* new c(data).  The base constructor (lines 17-19) returns
\* deepAssign(this, data ?? {}); the CProtoObject constructor of
\* protoObjectFactory adds nothing when no methods are given; the
\* UserAddress constructor assigns data once more and returns this
Construct(h, c, data, fuel) ==
    LET this == NextAddr(h)
        base == deepAssign(Alloc(h, c), Ref(this), data, fuel)
        self == NewResult(this, base.r)
    IN  IF base.ex # None THEN base
        ELSE IF c = "UserAddress" /\ Truthy(data)
        THEN IF IsRef(self) /\ InstanceOfProtoObject(base.h[self.v].cls)
             THEN LET again == assign(base.h, self.v, data, fuel) IN
                  IF again.ex # None THEN again ELSE Ok(again.h, self)
             ELSE Throw(base.h, "TypeError")
        ELSE Ok(base.h, self)

----------------------------------------------------------------------------
(* collectionTransformer (lines 304-333).  Its argument is an array of     *)
(* items or some other value; its result is an array of items or undefined *)

ArrayOf(items) == [arr |-> TRUE, items |-> items, val |-> Undef]
NotArray(x) == [arr |-> FALSE, items |-> <<>>, val |-> x]

\* a validator: fn tells whether a function was supplied, ok is the set of
\* values for which it returns true
Validator(fn, ok) == [fn |-> fn, ok |-> ok]

\* the filter without the validator
KeptWhenTruthy(v, x) == Truthy(x)

\* the filter of lines 317-320 and 326-330
Kept(v, x) == Truthy(x) /\ (~v.fn \/ x \in v.ok)

\* obj.toJSON() on an item: an entity's toJSON, a Date's ISO string, and a
\* TypeError for a value that has no toJSON method
ItemToJSON(h, x) ==
    IF IsEntity(h, x) THEN toJSON(h, x.v)
    ELSE IF IsRef(x) /\ h[x.v].cls = "Date" THEN Ok(h, Str(1))
    ELSE Throw(h, "TypeError")

\* classNode.fromJSON(json) on an item: for...in visits no key of a number
\* or a boolean
ItemFromJSON(h, c, x) ==
    IF IsRef(x) THEN fromJSON(h, c, x.v, MaxDepth)
    ELSE Construct(Alloc(h, "Object"), c, Ref(NextAddr(h)), MaxDepth)

\* .map(obj => obj.toJSON()) from the i-th item on
RECURSIVE MapToJSON(_, _, _, _)
MapToJSON(h, xs, i, acc) ==
    IF i > Len(xs) THEN [h |-> h, out |-> ArrayOf(acc), ex |-> None]
    ELSE LET e == ItemToJSON(h, xs[i]) IN
         IF e.ex # None THEN [h |-> e.h, out |-> NotArray(Undef), ex |-> e.ex]
         ELSE MapToJSON(e.h, xs, i + 1, Append(acc, e.r))

\* .map(json => classNode.fromJSON(json)) from the i-th item on
RECURSIVE MapFromJSON(_, _, _, _, _)
MapFromJSON(h, c, xs, i, acc) ==
    IF i > Len(xs) THEN [h |-> h, out |-> ArrayOf(acc), ex |-> None]
    ELSE LET e == ItemFromJSON(h, c, xs[i]) IN
         IF e.ex # None THEN [h |-> e.h, out |-> NotArray(Undef), ex |-> e.ex]
         ELSE MapFromJSON(e.h, c, xs, i + 1, Append(acc, e.r))

\* to(objArr) (lines 314-322)
collectionTo(h, v, x) ==
    IF ~x.arr THEN [h |-> h, out |-> NotArray(Undef), ex |-> None]
    ELSE MapToJSON(h, SelectSeq(x.items, LAMBDA o : Kept(v, o)), 1, <<>>)

\* from(jsonArr) of the transformer of class c (lines 323-332)
collectionFrom(h, c, v, x) ==
    IF ~x.arr THEN [h |-> h, out |-> NotArray(Undef), ex |-> None]
    ELSE MapFromJSON(h, c, SelectSeq(x.items, LAMBDA o : Kept(v, o)), 1, <<>>)

----------------------------------------------------------------------------
(* ProtoObjectSQLite (lines 739-1044) and the class User of its tests.  An *)
(* instance is a record of its fields; a field that is not set holds       *)
(* Undef.  A JSON bag is a record of the columns, Undef for a key it does  *)
(* not have.  A row holds SQL values, Null for NULL.                       *)

Cols == {"id", "name", "age", "record_state", "created_at", "updated_at"}

\* RecordState.ACTIVE and RecordState.DELETED
ACTIVE == Num(0)
DELETED == Num(1)

\* the Date object of time t, and the text its toJSON() gives, which sorts
\* by time and is never empty because the clock starts at 1
DateAt(t) == [k |-> "date", v |-> t]
ISO(t) == Str(t)

NoRow ==
    [has |-> FALSE, id |-> Null, name |-> Null, age |-> Null,
     record_state |-> Null, created_at |-> Null, updated_at |-> Null]

SqlOk(d, r) == [db |-> d, r |-> r, ex |-> None]
SqlThrow(d, r, e) == [db |-> d, r |-> r, ex |-> e]

\* ProtoObject.toJSON on the instance r (lines 219-231)
baseToJSON(r) ==
    [c \in Cols |->
        IF Truthy(valueToJSON(r[c])) THEN valueToJSON(r[c]) ELSE Undef]

\* ProtoObjectSQLite.toJSON (lines 1033-1044)
sqliteToJSON(r) ==
    [baseToJSON(r) EXCEPT
        !.created_at = IF r.created_at # Undef THEN ISO(r.created_at.v) ELSE @,
        !.updated_at = IF r.updated_at # Undef THEN ISO(r.updated_at.v) ELSE @]

\* User.toJSON leaving record_state out
userToJSONWithoutState(r) ==
    [sqliteToJSON(r) EXCEPT
        !.name = IF r.name # Undef THEN r.name ELSE @,
        !.age = IF r.age # Undef THEN r.age ELSE @,
        !.record_state = Undef]

\* User.toJSON of the tests
userToJSON(r) ==
    [sqliteToJSON(r) EXCEPT
        !.name = IF r.name # Undef THEN r.name ELSE @,
        !.age = IF r.age # Undef THEN r.age ELSE @]

\* ProtoObject.fromJSON on a row, then the constructor of
\* ProtoObjectSQLite (lines 201-212, 743-760): record_state defaults to
\* ACTIVE
baseFromJSON(row) ==
    LET json == [c \in Cols |->
                    IF Truthy(valueFromJSON(row[c])) THEN row[c] ELSE Undef]
    IN  [json EXCEPT !.record_state = IF @ = Undef THEN ACTIVE ELSE @]

\* ProtoObjectSQLite.fromJSON (lines 1016-1028): the dates are parsed
sqliteFromJSON(row) ==
    [baseFromJSON(row) EXCEPT
        !.created_at = IF row.created_at.k = "string"
                       THEN DateAt(row.created_at.v) ELSE @,
        !.updated_at = IF row.updated_at.k = "string"
                       THEN DateAt(row.updated_at.v) ELSE @]

\* User.fromJSON of the tests
userFromJSON(row) ==
    [sqliteFromJSON(row) EXCEPT
        !.name = IF row.name.k = "string" THEN row.name ELSE Undef,
        !.age = IF row.age.k = "number" THEN row.age ELSE Undef]

\* getById (lines 769-782)
getById(d, id) == IF d[id].has THEN userFromJSON(d[id]) ELSE Undef

\* insert (lines 913-944).  INSERT fails when the id is taken or when the
\* NOT NULL column name gets no value; columns left out take their
\* defaults
insert(d, r, now) ==
    LET r1 == [r EXCEPT !.created_at = DateAt(now), !.updated_at = DateAt(now)]
        json == userToJSON(r1)
    IN  IF json.id = Undef \/ d[json.id.v].has \/ json.name = Undef
        THEN SqlThrow(d, r1, "SqliteError")
        ELSE SqlOk([d EXCEPT ![json.id.v] =
                      [has |-> TRUE,
                       id |-> json.id,
                       name |-> json.name,
                       age |-> IF json.age = Undef THEN Null ELSE json.age,
                       record_state |-> IF json.record_state = Undef
                                        THEN ACTIVE ELSE json.record_state,
                       created_at |-> json.created_at,
                       updated_at |-> json.updated_at]], r1)

\* update (lines 949-972): UPDATE sets the columns toJSON names
update(d, r, now) ==
    IF ~Truthy(r.id) THEN SqlThrow(d, r, "Error")
    ELSE LET r1 == [r EXCEPT !.updated_at = DateAt(now)]
             json == [userToJSON(r1) EXCEPT !.id = Undef]
             row == d[r1.id.v]
         IN  IF ~row.has THEN SqlOk(d, r1)
             ELSE SqlOk([d EXCEPT ![r1.id.v] =
                           [c \in DOMAIN row |->
                               IF c \in Cols /\ json[c] # Undef
                               THEN json[c] ELSE row[c]]], r1)

\* softDelete (lines 977-980)
softDelete(d, r, now) == update(d, [r EXCEPT !.record_state = DELETED], now)

\* delete (lines 985-999)
delete(d, r) ==
    IF ~Truthy(r.id) THEN SqlThrow(d, r, "Error")
    ELSE SqlOk([d EXCEPT ![r.id.v] = NoRow], r)

\* exists (lines 1004-1011)
exists(d, r) == IF ~Truthy(r.id) THEN FALSE ELSE getById(d, r.id.v) # Undef

----------------------------------------------------------------------------
(* ProtoObjectLocalStorage (src/src/utils/protoobject-localstorage.ts).    *)
(* A key is a sequence of characters.  An entity and a JSON bag are        *)
(* records of the fields Keys, Undef for a key they lack.  A stored text   *)
(* is what JSON.stringify wrote, or a text some other code put there.      *)

\* the number Infinity: truthy and not finite (payload -1)
Infinity == [k |-> "number", v |-> -1]
IsFiniteNumber(x) == x.k = "number" /\ x.v >= 0

EmptyBag == [k \in Keys |-> Undef]

\* ProtoObject.toJSON of the entity e (proto-object.ts lines 219-231)
entityToJSON(e) ==
    [k \in Keys |->
        IF Truthy(valueToJSON(e[k])) THEN valueToJSON(e[k]) ELSE Undef]

\* ProtoObject.fromJSON of the bag j (proto-object.ts lines 201-212)
entityFromJSON(j) ==
    [k \in Keys |->
        IF Truthy(valueFromJSON(j[k])) THEN valueFromJSON(j[k]) ELSE Undef]

\* JSON.stringify of one property value: a number that is not finite is
\* written as null, a property holding undefined is left out
stringifyValue(x) ==
    CASE x.k = "number" /\ ~IsFiniteNumber(x) -> Null
      [] x.k \in {"undefined", "function", "symbol"} -> Undef
      [] OTHER -> x

\* the texts: JSON.stringify of a bag, of an array of bags, a text that is
\* not JSON, and the empty text
ObjectText(b) == [kind |-> "object", body |-> <<b>>]
ArrayText(bs) == [kind |-> "array", body |-> bs]
Garbage == [kind |-> "garbage", body |-> <<>>]
EmptyText == [kind |-> "empty", body |-> <<>>]

stringify(b) == ObjectText([k \in Keys |-> stringifyValue(b[k])])
stringifyArray(bs) ==
    ArrayText([i \in 1..Len(bs) |-> [k \in Keys |-> stringifyValue(bs[i][k])]])

\* String.prototype.startsWith
startsWith(key, p) == Len(p) <= Len(key) /\ SubSeq(key, 1, Len(p)) = p

\* an optional prefix argument
NoPrefix == [given |-> FALSE, p |-> <<>>]
Prefix(p) == [given |-> TRUE, p |-> p]

\* Storage.getItem, setItem, removeItem
HasItem(st, key) == \E i \in 1..Len(st) : st[i].key = key
getItem(st, key) == st[CHOOSE i \in 1..Len(st) : st[i].key = key].text
setItem(st, key, t) ==
    IF HasItem(st, key)
    THEN [i \in 1..Len(st) |->
             IF st[i].key = key THEN [key |-> key, text |-> t] ELSE st[i]]
    ELSE Append(st, [key |-> key, text |-> t])
removeItem(st, key) == SelectSeq(st, LAMBDA it : it.key # key)

RECURSIVE removeItems(_, _, _)
removeItems(st, ks, i) ==
    IF i > Len(ks) THEN st ELSE removeItems(removeItem(st, ks[i]), ks, i + 1)

\* typeof window === "undefined" || !window.localStorage
Unavailable(e) == e \in {"node", "nostorage"}

\* what a method returns
NoOut == [k |-> "none", b |-> FALSE, n |-> 0, keys |-> <<>>, items |-> <<>>]
OutBool(b) == [NoOut EXCEPT !.k = "boolean", !.b = b]
OutUndefined == [NoOut EXCEPT !.k = "undefined"]
OutInstance(e) == [NoOut EXCEPT !.k = "instance", !.items = <<e>>]
OutInstances(es) == [NoOut EXCEPT !.k = "array", !.items = es]
OutKeys(ks) == [NoOut EXCEPT !.k = "keys", !.keys = ks]
OutCount(n) == [NoOut EXCEPT !.k = "number", !.n = n]

LsRet(st, out) == [st |-> st, out |-> out, ex |-> None]
LsRaise(st, e) == [st |-> st, out |-> NoOut, ex |-> e]

\* try { ... } catch (error) { console.error(...); return failure } letting
\* the error through
GuardedRethrow(r, failure) == r

\* try { ... } catch (error) { console.error(...); return failure }
Guarded(r, failure) == IF r.ex # None THEN LsRet(r.st, failure) ELSE r

\* save (lines 19-36)
lsSave(st, e, key, obj) ==
    Guarded(
        IF Unavailable(e) THEN LsRet(st, OutBool(FALSE))
        ELSE IF e \in {"blocked", "full"} THEN LsRaise(st, "DOMException")
        ELSE LsRet(setItem(st, key, stringify(entityToJSON(obj))),
                   OutBool(TRUE)),
        OutBool(FALSE))

\* JSON.parse of a stored text, then ClassConstructor.fromJSON: the
\* elements of an array are objects, which fromJSON does not let through
parseAndBuild(t) ==
    CASE t.kind = "garbage" -> LsRaise(<<>>, "SyntaxError")
      [] t.kind = "array" -> LsRet(<<>>, OutInstance(entityFromJSON(EmptyBag)))
      [] OTHER -> LsRet(<<>>, OutInstance(entityFromJSON(t.body[1])))

\* load (lines 45-65)
lsLoad(st, e, key) ==
    Guarded(
        IF Unavailable(e) THEN LsRet(st, OutUndefined)
        ELSE IF e = "blocked" THEN LsRaise(st, "DOMException")
        ELSE IF ~HasItem(st, key) \/ getItem(st, key).kind = "empty"
             THEN LsRet(st, OutUndefined)
             ELSE [parseAndBuild(getItem(st, key)) EXCEPT !.st = st],
        OutUndefined)

\* remove (lines 73-85)
lsRemove(st, e, key) ==
    Guarded(
        IF Unavailable(e) THEN LsRet(st, OutBool(FALSE))
        ELSE IF e = "blocked" THEN LsRaise(st, "DOMException")
        ELSE LsRet(removeItem(st, key), OutBool(TRUE)),
        OutBool(FALSE))

\* exists (lines 93-104)
lsExists(st, e, key) ==
    Guarded(
        IF Unavailable(e) THEN LsRet(st, OutBool(FALSE))
        ELSE IF e = "blocked" THEN LsRaise(st, "DOMException")
        ELSE LsRet(st, OutBool(HasItem(st, key))),
        OutBool(FALSE))

\* the test of line 121: key && (!prefix || key.startsWith(prefix))
KeyMatches(key, prefix) ==
    /\ key # <<>>
    /\ (~prefix.given \/ prefix.p = <<>> \/ startsWith(key, prefix.p))

\* getKeys (lines 112-130)
lsGetKeys(st, e, prefix) ==
    Guarded(
        IF Unavailable(e) THEN LsRet(st, OutKeys(<<>>))
        ELSE IF e = "blocked" THEN LsRaise(st, "DOMException")
        ELSE LET hit == SelectSeq(st, LAMBDA it : KeyMatches(it.key, prefix))
             IN  LsRet(st, OutKeys([i \in 1..Len(hit) |-> hit[i].key])),
        OutKeys(<<>>))

\* clear (lines 138-151)
lsClear(st, e, prefix) ==
    Guarded(
        IF Unavailable(e) THEN LsRet(st, OutCount(0))
        ELSE LET keysToRemove == lsGetKeys(st, e, prefix).out.keys IN
             LsRet(removeItems(st, keysToRemove, 1),
                   OutCount(Len(keysToRemove))),
        OutCount(0))

\* saveArray (lines 160-177)
lsSaveArray(st, e, key, objs) ==
    Guarded(
        IF Unavailable(e) THEN LsRet(st, OutBool(FALSE))
        ELSE IF e \in {"blocked", "full"} THEN LsRaise(st, "DOMException")
        ELSE LsRet(setItem(st, key,
                           stringifyArray([i \in 1..Len(objs) |->
                                              entityToJSON(objs[i])])),
                   OutBool(TRUE)),
        OutBool(FALSE))

\* loadArray (lines 186-210)
lsLoadArray(st, e, key) ==
    Guarded(
        IF Unavailable(e) THEN LsRet(st, OutUndefined)
        ELSE IF e = "blocked" THEN LsRaise(st, "DOMException")
        ELSE IF ~HasItem(st, key) \/ getItem(st, key).kind = "empty"
             THEN LsRet(st, OutUndefined)
             ELSE LET t == getItem(st, key) IN
                  CASE t.kind = "garbage" -> LsRaise(st, "SyntaxError")
                    [] t.kind = "object" -> LsRet(st, OutUndefined)
                    [] OTHER ->
                         LsRet(st, OutInstances(
                             [i \in 1..Len(t.body) |->
                                 entityFromJSON(t.body[i])])),
        OutUndefined)

----------------------------------------------------------------------------
(* ProtoObjectCrypto (src/src/classes/proto-object-crypto.ts).  An         *)
(* instance is a record of its class, one data field, value, and the       *)
(* field _hash that generateHash assigns.  A digest is a string whose      *)
(* payload is computed from the algorithm and the text by a one-to-one     *)
(* code, so two digests are equal exactly when the algorithm and the text  *)
(* are.                                                                    *)

HashAlgorithms == <<"sha256", "sha512", "md5">>
AlgIndex(alg) == CHOOSE i \in 1..Len(HashAlgorithms) : HashAlgorithms[i] = alg

\* toJSON of TestCryptoObject, the class of the tests, which lists its own
\* fields; every other class inherits ProtoObject.toJSON (proto-object.ts
\* lines 219-231), which takes every own enumerable property
cryptoToJSON(o) ==
    IF o.cls = "TestCryptoObject"
    THEN [value |-> o.value, _hash |-> Undef]
    ELSE [value |-> IF Truthy(valueToJSON(o.value))
                    THEN valueToJSON(o.value) ELSE Undef,
          _hash |-> IF Truthy(valueToJSON(o._hash))
                    THEN valueToJSON(o._hash) ELSE Undef]

\* JSON.stringify of the bag, as a number: one text for each bag
ValueCode(x) ==
    CASE x = Undef -> 0
      [] x = Num(1) -> 1
      [] x = Str(1) -> 2
      [] OTHER -> 3
TextOf(bag) ==
    ValueCode(bag.value) + 4 * (IF bag._hash = Undef THEN 0 ELSE bag._hash.v)

\* createHash(algorithm).update(data).digest("hex")
createHash(alg, text) == Str(AlgIndex(alg) + 3 * text)

\* generateHash (lines 77-82)
generateHash(o, alg) ==
    LET hash == createHash(alg, TextOf(cryptoToJSON(o))) IN
    [o |-> [o EXCEPT !._hash = hash], r |-> hash]

\* getHash (lines 88-90)
getHash(o) == o._hash

\* verifyHash (lines 159-165)
verifyHash(o, expectedHash, alg) ==
    LET g == generateHash(o, alg) IN
    [o |-> g.o, r |-> Bool(IF g.r = expectedHash THEN 1 ELSE 0)]

----------------------------------------------------------------------------
(* ProtoObjectTCPServer and ProtoObjectTCPClient (proto-object.ts lines    *)
(* 379-627).  A buffer is a sequence of bytes.  A frame is the 4-byte      *)
(* big-endian length of its payload followed by the payload.               *)

\* the bytes of the length prefix
HeaderLen == 4

\* lengthBuffer.writeUInt32BE(n, 0)
writeUInt32BE(n) ==
    <<(n \div 16777216) % 256, (n \div 65536) % 256, (n \div 256) % 256,
      n % 256>>

\* buffer.readUInt32BE(offset)
readUInt32BE(buffer, offset) ==
    buffer[offset + 1] * 16777216 + buffer[offset + 2] * 65536
        + buffer[offset + 3] * 256 + buffer[offset + 4]

\* Buffer.concat([lengthBuffer, messageData])
Frame(messageData) == writeUInt32BE(Len(messageData)) \o messageData

\* buffer.subarray(from, to), offsets counted from 0
subarray(buffer, from, to) == SubSeq(buffer, from + 1, to)

\* JSON.parse accepts the text: of the texts over the bytes of the model
\* (NUL, the length bytes, the digits 1 and 2 and an opening brace) the
\* numbers are JSON
IsJSON(messageData) ==
    /\ messageData # <<>>
    /\ \A i \in 1..Len(messageData) : messageData[i] \in 49..57

\* processMessages forgetting to cut the bytes it consumed off the buffer
RECURSIVE processMessagesKeepingAll(_, _, _)
processMessagesKeepingAll(buffer, offset, msgs) ==
    IF offset + HeaderLen <= Len(buffer)
    THEN LET messageLength == readUInt32BE(buffer, offset) IN
         IF offset + HeaderLen + messageLength > Len(buffer)
         THEN [msgs |-> msgs, rest |-> buffer]
         ELSE LET messageData == subarray(buffer, offset + HeaderLen,
                                          offset + HeaderLen + messageLength)
              IN  processMessagesKeepingAll(
                      buffer, offset + HeaderLen + messageLength,
                      IF IsJSON(messageData) THEN Append(msgs, messageData)
                      ELSE msgs)
    ELSE [msgs |-> msgs, rest |-> buffer]

\* ProtoObjectTCPClient.processMessages (lines 570-596) from offset on:
\* the messages emitted and the buffer kept
RECURSIVE processMessages(_, _, _)
processMessages(buffer, offset, msgs) ==
    IF offset + HeaderLen <= Len(buffer)
    THEN LET messageLength == readUInt32BE(buffer, offset) IN
         IF offset + HeaderLen + messageLength > Len(buffer)
         THEN [msgs |-> msgs, rest |-> subarray(buffer, offset, Len(buffer))]
         ELSE LET messageData == subarray(buffer, offset + HeaderLen,
                                          offset + HeaderLen + messageLength)
              IN  processMessages(
                      buffer, offset + HeaderLen + messageLength,
                      IF IsJSON(messageData) THEN Append(msgs, messageData)
                      ELSE msgs)
    ELSE [msgs |-> msgs, rest |-> subarray(buffer, offset, Len(buffer))]

\* ProtoObjectTCPServer.parseMessages (lines 422-446) from offset on
RECURSIVE parseMessages(_, _, _)
parseMessages(buffer, offset, messages) ==
    IF offset < Len(buffer)
    THEN IF offset + HeaderLen > Len(buffer) THEN messages
         ELSE LET messageLength == readUInt32BE(buffer, offset) IN
              IF offset + HeaderLen + messageLength > Len(buffer)
              THEN messages
              ELSE LET messageData ==
                           subarray(buffer, offset + HeaderLen,
                                    offset + HeaderLen + messageLength)
                   IN  parseMessages(
                           buffer, offset + HeaderLen + messageLength,
                           IF IsJSON(messageData)
                           THEN Append(messages, messageData) ELSE messages)
    ELSE messages

----------------------------------------------------------------------------
(* Initial heaps.  Every one is a heap a program can build with object     *)
(* literals, constructors, Object.defineProperty and                       *)
(* Object.preventExtensions.                                               *)

\* an object of class c with ordinary properties country = x, address = y
\* (Absent leaves the key out)
Obj(c, x, y) ==
    [cls |-> c, ext |-> TRUE,
     order |-> (IF x.has THEN <<"country">> ELSE <<>>)
                 \o (IF y.has THEN <<"address">> ELSE <<>>),
     props |-> [k \in Keys |-> IF k = "country" THEN x ELSE y]]

\* one object of every class
Zoo ==
    << Obj("Object", DataProp(Num(1)), Absent),
       Obj("Object", DataProp(Num(0)), DataProp(Str(1))),
       Obj("Array", DataProp(Num(1)), Absent),
       Obj("Date", Absent, DataProp(Num(1))),
       Obj("UserAddress", DataProp(Str(1)), DataProp(Num(0))),
       Obj("FactoryA", DataProp(Num(1)), Absent),
       Obj("FactoryB", Absent, DataProp(Str(1))),
       Obj("NullProto", DataProp(Num(1)), Absent) >>

Refs(h) == {Ref(a) : a \in DOMAIN h}

\* every kind of value against every kind of value
InitValues ==
    /\ heap = Zoo
    /\ tgt \in Prims \cup {Undef, Null} \cup Refs(Zoo)
    /\ src \in Prims \cup {Undef, Null} \cup Refs(Zoo)

\* the values a nested slot holds in the initial heaps
SlotValues == {Undef, Null, Num(1), Ref(1), Ref(2), Ref(3), Ref(4)}

\* target 1 and source 2 with nested objects 3 and 4 of every class
InitClasses ==
    \E c1 \in {"Object", "UserAddress"}, c2 \in {"Object", "UserAddress"},
       c3 \in Classes, c4 \in Classes :
        /\ heap = << Obj(c1, DataProp(Str(1)), DataProp(Ref(3))),
                     Obj(c2, DataProp(Str(0)), DataProp(Ref(4))),
                     Obj(c3, DataProp(Num(1)), DataProp(Str(1))),
                     Obj(c4, DataProp(Num(0)), Absent) >>
        /\ tgt = Ref(1)
        /\ src = Ref(2)

\* target 1 and source 2 with every value, shared object and cycle in
\* their slots
InitSlots ==
    \E c1 \in {"Object", "UserAddress"}, c4 \in {"Object"},
       x1 \in {Absent, DataProp(Num(1))},
       x2 \in {Absent, DataProp(Undef), DataProp(Num(0))},
       y1 \in {Absent} \cup {DataProp(x) : x \in SlotValues},
       y2 \in {Absent} \cup {DataProp(x) : x \in SlotValues} :
        /\ heap = << Obj(c1, x1, y1),
                     Obj("Object", x2, y2),
                     Obj("Object", DataProp(Str(1)), Absent),
                     Obj(c4, DataProp(Str(0)), DataProp(Num(1))) >>
        /\ tgt = Ref(1)
        /\ src = Ref(2)

\* the descriptors a target's property has in the initial heaps
Descriptors(x) ==
    {Absent, DataProp(x), DefinedProp(x, TRUE, FALSE), DefinedProp(x, FALSE, TRUE),
     DefinedProp(x, FALSE, FALSE), AccessorProp(TRUE), AccessorProp(FALSE)}

\* the descriptors a source's property has in the initial heaps
SourceDescriptors(x) ==
    {Absent, DataProp(x), DefinedProp(x, TRUE, FALSE), DefinedProp(x, FALSE, TRUE),
     AccessorProp(TRUE)}

\* target 1 and source 2 whose properties, and those of the nested objects
\* 3 and 4, have every descriptor; targets may be non-extensible
InitDescriptors ==
    \E e1 \in BOOLEAN, e3 \in BOOLEAN,
       p1 \in Descriptors(Num(1)), p2 \in SourceDescriptors(Num(0)),
       p3 \in {Absent, DataProp(Str(1)), DefinedProp(Str(1), TRUE, FALSE),
               AccessorProp(TRUE)},
       p4 \in {DataProp(Str(0)), AccessorProp(TRUE)} :
        /\ heap = << [Obj("Object", p1, DataProp(Ref(3))) EXCEPT !.ext = e1],
                     Obj("Object", p2, DataProp(Ref(4))),
                     [Obj("Object", p3, Absent) EXCEPT !.ext = e3],
                     Obj("Object", p4, DataProp(Num(1))) >>
        /\ tgt = Ref(1)
        /\ src = Ref(2)

\* the properties an entity or a bag of JSON data has in the initial heaps
EntityProps ==
    {Absent, DefinedProp(Str(1), FALSE, TRUE), DefinedProp(Num(1), TRUE, FALSE),
     AccessorProp(TRUE)}
        \cup {DataProp(x) : x \in Prims \cup {Undef, Null, Ref(2), Ref(3), Ref(4)}}

\* object 1, an entity or a bag of JSON data, with values of every kind
\* next to a bag, a Date and an entity
InitEntities ==
    \E c \in EntityClasses \cup {"Object"}, p1 \in EntityProps,
       p2 \in {Absent, DataProp(Num(0)), DataProp(Str(1)), DataProp(Bool(1)),
               DataProp(Ref(2)), AccessorProp(TRUE)} :
        /\ heap = << Obj(c, p1, p2),
                     Obj("Object", DataProp(Num(1)), Absent),
                     Obj("Date", Absent, DataProp(Num(1))),
                     Obj("UserAddress", DataProp(Str(1)), DataProp(Str(0))) >>
        /\ tgt = Ref(1)
        /\ src = Ref(1)

\* no database is in use
NoSQLite ==
    /\ db = <<>>
    /\ inst = <<>>
    /\ clock = 1
    /\ pc = <<>>
    /\ live = {}
    /\ got = Undef
    /\ who = 0

\* what is known of a key nothing is stored under
NotSaved == [has |-> FALSE, kind |-> "none", json |-> <<>>]

\* no localStorage is in use
NoStorage ==
    /\ store = <<>>
    /\ env = "node"
    /\ saved = <<>>
    /\ lskey = NoPrefix
    /\ lsout = NoOut

\* no hash was taken
NotKept == [taken |-> FALSE, h |-> Undef, alg |-> "", value |-> Undef]

\* no ProtoObjectCrypto instance is in use
NoCrypto ==
    /\ cobj = <<>>
    /\ kept = NotKept
    /\ cout = Undef

\* what a call on the server or on a client returns; id is the client the
\* call was made on (send) or for (sendToClient)
NoTcpRet == [k |-> "none", b |-> FALSE, ids |-> {}, id |-> 0]
TcpBool(id, b) == [NoTcpRet EXCEPT !.k = "boolean", !.b = b, !.id = id]
TcpIds(ids) == [NoTcpRet EXCEPT !.k = "ids", !.ids = ids]

\* no TCP server and no TCP client is in use
NoTcp ==
    /\ clients = {}
    /\ socket = <<>> /\ link = <<>>
    /\ up = <<>> /\ down = <<>>
    /\ messageBuffer = <<>>
    /\ wrote = <<>> /\ heard = <<>>
    /\ served = <<>> /\ seen = <<>>
    /\ stale = <<>>
    /\ srvmsgs = <<>> /\ climsgs = <<>>
    /\ tcpret = NoTcpRet

\* none of the utilities around the object engine is in use
NoRest == NoStorage /\ NoCrypto /\ NoTcp

Init ==
    /\ (InitValues \/ InitClasses \/ InitSlots \/ InitDescriptors
          \/ InitEntities)
    /\ pre = heap
    /\ ret = Undef
    /\ ex = None
    /\ op = "init"
    /\ arg = ""
    /\ steps = 0
    /\ xin = NotArray(Undef)
    /\ xval = Validator(FALSE, {})
    /\ xout = NotArray(Undef)
    /\ NoSQLite
    /\ NoRest

----------------------------------------------------------------------------
(* Operations *)

\* the state after an operation named o, called on class c, that ended as r
DoneOn(o, c, r) ==
    /\ pre' = heap
    /\ heap' = r.h
    /\ ret' = r.r
    /\ ex' = r.ex
    /\ op' = o
    /\ arg' = c
    /\ steps' = steps + 1
    /\ UNCHANGED <<tgt, src, xvars, sqlvars, restvars>>

\* the state after an operation named o, called on no class, that ended as r
Done(o, r) == DoneOn(o, "", r)

\* ProtoObject.recursiveAssign(tgt, src)
RecursiveAssign ==
    /\ steps < MaxSteps
    /\ Done("recursiveAssign", recursiveAssign(heap, tgt, src, MaxDepth))

\* ProtoObject.deepAssign(tgt, src) on an object
DeepAssign ==
    /\ steps < MaxSteps
    /\ IsRef(tgt)
    /\ Done("deepAssign", deepAssign(heap, tgt, src, MaxDepth))

\* tgt.assign(src) on an entity
Assign ==
    /\ steps < MaxSteps
    /\ IsRef(tgt)
    /\ InstanceOfProtoObject(heap[tgt.v].cls)
    /\ Done("assign", assign(heap, tgt.v, src, MaxDepth))

\* new c(src)
New ==
    /\ steps < MaxSteps
    /\ \E c \in EntityClasses :
          DoneOn("new", c, Construct(heap, c, src, MaxDepth))

\* src.copy() on an entity
Copy ==
    /\ steps < MaxSteps
    /\ IsRef(src)
    /\ InstanceOfProtoObject(heap[src.v].cls)
    /\ Done("copy", copy(heap, src.v, MaxDepth))

\* src.toJSON() on an entity
ToJSON ==
    /\ steps < MaxSteps
    /\ IsRef(src)
    /\ InstanceOfProtoObject(heap[src.v].cls)
    /\ Done("toJSON", toJSON(heap, src.v))

\* c.fromJSON(src) on an object of JSON data
FromJSON ==
    /\ steps < MaxSteps
    /\ IsRef(src)
    /\ \E c \in EntityClasses :
          DoneOn("fromJSON", c, fromJSON(heap, c, src.v, MaxDepth))

\* the objects the caller holds after the last operation: the one returned
\* and those in the slots of the target
Held ==
    {a \in DOMAIN heap :
        \/ ret = Ref(a)
        \/ IsRef(tgt) /\ \E k \in Keys : Get(heap, tgt.v, k) = Ref(a)}

\* the caller writes a[k] = x on an object it got from the last operation
Mutate ==
    /\ steps < MaxSteps
    /\ op \notin {"init", "mutate"}
    /\ ex = None
    /\ \E a \in Held, k \in Keys, x \in {Num(0), Str(1)} :
          /\ SlotWritable(heap[a].props[k])
          /\ heap[a].ext
          /\ Get(heap, a, k) # x
          /\ Done("mutate", Ok(Set(heap, a, k, x).h, ret))

Next ==
    \/ RecursiveAssign \/ DeepAssign \/ Assign \/ New \/ Copy
    \/ ToJSON \/ FromJSON \/ Mutate

Spec == Init /\ [][Next]_vars

----------------------------------------------------------------------------
(* The collection transformer of class arg at work on the objects of Zoo   *)

\* the items of the arrays: falsy values, primitives, a plain bag, a Date
\* and entities
Items == {Undef, Null, Num(0), Num(1), Ref(2), Ref(4), Ref(5), Ref(6)}

\* the arrays of at most n of these items
RECURSIVE ArraysUpTo(_)
ArraysUpTo(n) ==
    IF n = 0 THEN {<<>>}
    ELSE ArraysUpTo(n - 1)
           \cup {Append(xs, x) : xs \in {ys \in ArraysUpTo(n - 1) : Len(ys) = n - 1},
                                  x \in Items}

InitTransformer ==
    /\ heap = Zoo
    /\ pre = heap
    /\ tgt = Undef /\ src = Undef /\ ret = Undef
    /\ ex = None
    /\ op = "init"
    /\ arg \in {"UserAddress", "FactoryA"}
    /\ steps = 0
    /\ xin \in {ArrayOf(xs) : xs \in ArraysUpTo(MaxLen)}
                \cup {NotArray(x) : x \in {Undef, Null, Str(1), Ref(1)}}
    /\ xval \in {Validator(FALSE, {}), Validator(TRUE, {}),
                 Validator(TRUE, {Num(1), Ref(2), Ref(5)})}
    /\ xout = NotArray(Undef)
    /\ NoSQLite
    /\ NoRest

\* the state after the transformer's method o ended as r
Transformed(o, r) ==
    /\ pre' = heap
    /\ heap' = r.h
    /\ xout' = r.out
    /\ ex' = r.ex
    /\ op' = o
    /\ steps' = steps + 1
    /\ UNCHANGED <<tgt, src, ret, arg, xin, xval, sqlvars, restvars>>

\* transformer.to(xin)
To ==
    /\ steps < MaxSteps
    /\ Transformed("to", collectionTo(heap, xval, xin))

\* transformer.from(xin)
From ==
    /\ steps < MaxSteps
    /\ Transformed("from", collectionFrom(heap, arg, xval, xin))

NextTransformer == To \/ From

SpecTransformer == InitTransformer /\ [][NextTransformer]_vars

----------------------------------------------------------------------------
(* Two User instances and the table users.  save() is suspended at its     *)
(* await between the lookup and the write; every other method runs to its  *)
(* end when called.                                                        *)

Instances == {1, 2}
Ids == {1, 2}

\* new User({id, name, age, record_state}) at time 1 (lines 743-760)
NewUser(id, name, age, state) ==
    [id |-> Str(id), name |-> name, age |-> age, record_state |-> state,
     created_at |-> DateAt(1), updated_at |-> DateAt(1)]

InitSQLite ==
    /\ heap = <<>> /\ pre = <<>>
    /\ tgt = Undef /\ src = Undef /\ ret = Undef
    /\ arg = "User"
    /\ ex = None
    /\ op = "init"
    /\ steps = 0
    /\ xin = NotArray(Undef)
    /\ xval = Validator(FALSE, {})
    /\ xout = NotArray(Undef)
    /\ db = [id \in Ids |-> NoRow]
    /\ \E id2 \in Ids, n1 \in {Str(1), Str(2)}, a1 \in {Undef, Num(0), Num(1)},
          s1 \in {ACTIVE, DELETED}, s2 \in {ACTIVE, DELETED} :
          inst = <<NewUser(1, n1, a1, s1), NewUser(id2, Str(2), Undef, s2)>>
    /\ clock = 1
    /\ pc = [i \in Instances |-> "idle"]
    /\ live = {}
    /\ got = Undef
    /\ who = 0
    /\ NoRest

\* the state after the SQLite method o of instance i ended as r
Ran(o, i, r) ==
    /\ db' = r.db
    /\ inst' = [inst EXCEPT ![i] = r.r]
    /\ ex' = r.ex
    /\ op' = o
    /\ who' = i
    /\ steps' = steps + 1
    /\ got' = Undef
    /\ UNCHANGED <<corevars, xvars, clock, restvars>>

\* time passes
Tick ==
    /\ clock < MaxClock
    /\ clock' = clock + 1
    /\ UNCHANGED <<corevars, xvars, ex, op, steps, db, inst, pc, live, got, who,
                   restvars>>

\* the program writes a field of instance 1
SetField ==
    /\ steps < MaxOps
    /\ \E r \in {[inst[1] EXCEPT !.name = Str(0)],
                  [inst[1] EXCEPT !.name = Str(1)],
                  [inst[1] EXCEPT !.record_state = ACTIVE],
                  [inst[1] EXCEPT !.record_state = DELETED]} :
          /\ r # inst[1]
          /\ Ran("set", 1, SqlOk(db, r))
    /\ UNCHANGED <<pc, live>>

\* inst[i].insert(db)
Insert ==
    /\ steps < MaxOps
    /\ \E i \in Instances :
          LET r == insert(db, inst[i], clock) IN
          /\ Ran("insert", i, r)
          /\ live' = IF r.ex = None THEN live \cup {inst[i].id.v} ELSE live
    /\ UNCHANGED pc

\* inst[i].update(db)
Update ==
    /\ steps < MaxOps
    /\ \E i \in Instances : Ran("update", i, update(db, inst[i], clock))
    /\ UNCHANGED <<pc, live>>

\* inst[i].softDelete(db)
SoftDelete ==
    /\ steps < MaxOps
    /\ \E i \in Instances : Ran("softDelete", i, softDelete(db, inst[i], clock))
    /\ UNCHANGED <<pc, live>>

\* inst[i].delete(db)
Delete ==
    /\ steps < MaxOps
    /\ \E i \in Instances :
          LET r == delete(db, inst[i]) IN
          /\ Ran("delete", i, r)
          /\ live' = IF r.ex = None THEN live \ {inst[i].id.v} ELSE live
    /\ UNCHANGED pc

\* inst[i].save(db) up to its await (lines 896-902): the lookup
SaveLookup ==
    /\ steps < MaxOps
    /\ \E i \in Instances :
          /\ pc[i] = "idle"
          /\ pc' = [pc EXCEPT ![i] =
                       IF getById(db, inst[i].id.v) # Undef
                       THEN "update" ELSE "insert"]
          /\ Ran("saveLookup", i, SqlOk(db, inst[i]))
    /\ UNCHANGED live

\* inst[i].save(db) after its await (lines 904-908): the write
SaveWrite ==
    /\ \E i \in Instances :
          /\ pc[i] # "idle"
          /\ pc' = [pc EXCEPT ![i] = "idle"]
          /\ LET r == IF pc[i] = "update" THEN update(db, inst[i], clock)
                      ELSE insert(db, inst[i], clock)
             IN  /\ Ran("save", i, r)
                 /\ live' = IF pc[i] = "insert" /\ r.ex = None
                            THEN live \cup {inst[i].id.v} ELSE live

\* User.getById(db, id), or inst[i].exists(db)
Query ==
    /\ steps < MaxOps
    /\ \/ \E id \in Ids :
             /\ got' = getById(db, id)
             /\ op' = "getById"
             /\ who' = 0
       \/ \E i \in Instances :
             /\ got' = Bool(IF exists(db, inst[i]) THEN 1 ELSE 0)
             /\ op' = "exists"
             /\ who' = i
    /\ ex' = None
    /\ steps' = steps + 1
    /\ UNCHANGED <<corevars, xvars, db, inst, clock, pc, live, restvars>>

NextSQLite ==
    \/ Tick \/ SetField \/ Insert \/ Update \/ SoftDelete \/ Delete
    \/ SaveLookup \/ SaveWrite \/ Query

SpecSQLite == InitSQLite /\ [][NextSQLite]_vars

----------------------------------------------------------------------------
(* The localStorage utility used by a program that saves, loads, removes   *)
(* and clears, in a browser, in a browser whose storage is full or         *)
(* blocked, and where there is no window or no window.localStorage.        *)

StorageKeys == {<<>>, <<"a">>, <<"a", "b">>, <<"b">>}
Prefixes == {NoPrefix} \cup {Prefix(p) : p \in StorageKeys}
Environments == {"browser", "full", "blocked", "nostorage", "node"}

\* the entities the program saves
StoredEntities ==
    {[country |-> x, address |-> y] :
        x \in {Undef, Num(0), Num(1), Infinity}, y \in {Undef, Str(1)}}

\* the item another part of the page stored before, and what is known of it
ForeignItem == [key |-> <<"b">>, text |-> Garbage]
Foreign == [has |-> TRUE, kind |-> "foreign", json |-> <<>>]

InitStorage ==
    /\ heap = <<>> /\ pre = <<>>
    /\ tgt = Undef /\ src = Undef /\ ret = Undef
    /\ arg = "UserAddress"
    /\ ex = None
    /\ op = "init"
    /\ steps = 0
    /\ xin = NotArray(Undef)
    /\ xval = Validator(FALSE, {})
    /\ xout = NotArray(Undef)
    /\ NoSQLite
    /\ env \in Environments
    /\ \/ /\ store = <<>>
          /\ saved = [key \in StorageKeys |-> NotSaved]
       \/ /\ env \in {"browser", "full", "blocked"}
          /\ store = <<ForeignItem>>
          /\ saved = [key \in StorageKeys |->
                         IF key = ForeignItem.key THEN Foreign ELSE NotSaved]
    /\ lskey = NoPrefix
    /\ lsout = NoOut
    /\ NoCrypto
    /\ NoTcp

\* the state after the storage method o, given the key or prefix p, ended
\* as r, with sv now known to be stored
Stored(o, p, r, sv) ==
    /\ steps < MaxStoreOps
    /\ store' = r.st
    /\ lsout' = r.out
    /\ ex' = r.ex
    /\ op' = o
    /\ lskey' = p
    /\ saved' = sv
    /\ steps' = steps + 1
    /\ UNCHANGED <<corevars, xvars, sqlvars, env, cryptovars, tcpvars>>

\* ProtoObjectLocalStorage.save(key, obj)
LsSave ==
    \E key \in StorageKeys, obj \in StoredEntities :
        LET r == lsSave(store, env, key, obj) IN
        Stored("save", Prefix(key), r,
               IF r.out.b
               THEN [saved EXCEPT ![key] =
                        [has |-> TRUE, kind |-> "object",
                         json |-> <<entityToJSON(obj)>>]]
               ELSE saved)

\* ProtoObjectLocalStorage.saveArray(key, objs)
LsSaveArray ==
    \E key \in StorageKeys,
       objs \in {<<>>, <<[country |-> Num(1), address |-> Undef],
                        [country |-> Num(0), address |-> Str(1)]>>} :
        LET r == lsSaveArray(store, env, key, objs) IN
        Stored("saveArray", Prefix(key), r,
               IF r.out.b
               THEN [saved EXCEPT ![key] =
                        [has |-> TRUE, kind |-> "array",
                         json |-> [i \in 1..Len(objs) |->
                                      entityToJSON(objs[i])]]]
               ELSE saved)

\* ProtoObjectLocalStorage.load(key, UserAddress)
LsLoad ==
    \E key \in StorageKeys :
        Stored("load", Prefix(key), lsLoad(store, env, key), saved)

\* ProtoObjectLocalStorage.loadArray(key, UserAddress)
LsLoadArray ==
    \E key \in StorageKeys :
        Stored("loadArray", Prefix(key), lsLoadArray(store, env, key), saved)

\* ProtoObjectLocalStorage.remove(key)
LsRemove ==
    \E key \in StorageKeys :
        LET r == lsRemove(store, env, key) IN
        Stored("remove", Prefix(key), r,
               IF r.out.b THEN [saved EXCEPT ![key] = NotSaved] ELSE saved)

\* ProtoObjectLocalStorage.exists(key)
LsExists ==
    \E key \in StorageKeys :
        Stored("exists", Prefix(key), lsExists(store, env, key), saved)

\* ProtoObjectLocalStorage.getKeys(prefix)
LsGetKeys ==
    \E prefix \in Prefixes :
        Stored("getKeys", prefix, lsGetKeys(store, env, prefix), saved)

\* ProtoObjectLocalStorage.clear(prefix); in a browser the keys the prefix
\* covers are no longer known to be stored
LsClear ==
    \E prefix \in Prefixes :
        Stored("clear", prefix, lsClear(store, env, prefix),
               IF env \in {"browser", "full"}
               THEN [key \in StorageKeys |->
                        IF startsWith(key, prefix.p) THEN NotSaved
                        ELSE saved[key]]
               ELSE saved)

NextStorage ==
    \/ LsSave \/ LsSaveArray \/ LsLoad \/ LsLoadArray
    \/ LsRemove \/ LsExists \/ LsGetKeys \/ LsClear

SpecStorage == InitStorage /\ [][NextStorage]_vars

----------------------------------------------------------------------------
(* One ProtoObjectCrypto instance whose hash is generated, kept by the     *)
(* program, verified and read, while the program writes its data field.    *)

\* Doc is a class that extends ProtoObjectCrypto and inherits toJSON
CryptoClasses == {"TestCryptoObject", "Doc"}
FieldValues == {Undef, Num(0), Num(1), Str(1)}

InitCrypto ==
    /\ heap = <<>> /\ pre = <<>>
    /\ tgt = Undef /\ src = Undef /\ ret = Undef
    /\ arg = ""
    /\ ex = None
    /\ op = "init"
    /\ steps = 0
    /\ xin = NotArray(Undef)
    /\ xval = Validator(FALSE, {})
    /\ xout = NotArray(Undef)
    /\ NoSQLite
    /\ NoStorage
    /\ \E c \in CryptoClasses, v \in FieldValues :
          cobj = [cls |-> c, value |-> v, _hash |-> Undef]
    /\ kept = NotKept
    /\ cout = Undef
    /\ NoTcp

\* the state after the method o of the instance returned r, leaving the
\* instance as c
Hashed(o, c, r) ==
    /\ steps < MaxHashOps
    /\ cobj' = c
    /\ cout' = r
    /\ op' = o
    /\ ex' = None
    /\ steps' = steps + 1
    /\ UNCHANGED <<corevars, xvars, sqlvars, lsvars, tcpvars>>

\* h = cobj.generateHash(alg): the program keeps the hash
GenerateHash ==
    \E alg \in {"sha256", "md5"} :
        LET g == generateHash(cobj, alg) IN
        /\ Hashed("generateHash", g.o, g.r)
        /\ kept' = [taken |-> TRUE, h |-> g.r, alg |-> alg,
                    value |-> cobj.value]

\* cobj.generateHash(alg) once more, the result dropped
GenerateAgain ==
    \E alg \in {"sha256", "md5"} :
        LET g == generateHash(cobj, alg) IN
        /\ kept.taken
        /\ Hashed("generateAgain", g.o, g.r)
        /\ UNCHANGED kept

\* cobj.verifyHash(h, alg) with the hash the program kept
VerifyHash ==
    /\ kept.taken
    /\ LET v == verifyHash(cobj, kept.h, kept.alg) IN
       Hashed("verifyHash", v.o, v.r)
    /\ UNCHANGED kept

\* cobj.getHash()
GetHash ==
    /\ Hashed("getHash", cobj, getHash(cobj))
    /\ UNCHANGED kept

\* cobj.value = v
SetValue ==
    /\ \E v \in FieldValues :
          /\ v # cobj.value
          /\ Hashed("set", [cobj EXCEPT !.value = v], Undef)
    /\ UNCHANGED kept

NextCrypto ==
    GenerateHash \/ GenerateAgain \/ VerifyHash \/ GetHash \/ SetValue

SpecCrypto == InitCrypto /\ [][NextCrypto]_vars

----------------------------------------------------------------------------
(* One ProtoObjectTCPServer and two ProtoObjectTCPClient instances that    *)
(* connect to it.  What one side writes reaches the other side as 'data'   *)
(* events that cut the byte stream anywhere.  A client's id at the server  *)
(* is its address and port, here its number.                               *)

ClientIds == {1, 2}

\* JSON.stringify(message) of the envelopes the clients and the server
\* send, and a payload that is not JSON, written to a socket directly
ClientPayloads == {<<49>>, <<50, 50>>}
ServerPayloads == {<<49>>}
RawPayloads == {<<123>>}

InitTCP ==
    /\ heap = <<>> /\ pre = <<>>
    /\ tgt = Undef /\ src = Undef /\ ret = Undef
    /\ arg = ""
    /\ ex = None
    /\ op = "init"
    /\ steps = 0
    /\ xin = NotArray(Undef)
    /\ xval = Validator(FALSE, {})
    /\ xout = NotArray(Undef)
    /\ NoSQLite
    /\ NoStorage
    /\ NoCrypto
    /\ clients = {}
    /\ socket = [c \in ClientIds |-> "null"]
    /\ link = [c \in ClientIds |-> "none"]
    /\ up = [c \in ClientIds |-> <<>>]
    /\ down = [c \in ClientIds |-> <<>>]
    /\ messageBuffer = [c \in ClientIds |-> <<>>]
    /\ wrote = [c \in ClientIds |-> <<>>]
    /\ heard = [c \in ClientIds |-> 0]
    /\ served = [c \in ClientIds |-> <<>>]
    /\ seen = [c \in ClientIds |-> 0]
    /\ stale = [c \in ClientIds |-> <<>>]
    /\ srvmsgs = [c \in ClientIds |-> <<>>]
    /\ climsgs = [c \in ClientIds |-> <<>>]
    /\ tcpret = NoTcpRet

\* this.clients.delete(clientId) (line 411)
clientsDeleteNothing(cs, clientId) == cs
clientsDelete(cs, clientId) == cs \ {clientId}

\* the state after the program called o, which returned r
Api(o, r) ==
    /\ steps < MaxTcpOps
    /\ op' = o
    /\ ex' = None
    /\ tcpret' = r
    /\ steps' = steps + 1
    /\ UNCHANGED <<corevars, xvars, sqlvars, lsvars, cryptovars>>

\* the state after the event o of a socket or of the server was handled
Event(o) ==
    /\ op' = o
    /\ ex' = None
    /\ UNCHANGED <<corevars, xvars, sqlvars, lsvars, cryptovars, steps,
                   tcpret>>

\* client.connect() (lines 543-568): a new socket, on a new connection
TcpConnect ==
    \E c \in ClientIds :
        /\ socket[c] = "null" /\ link[c] = "none"
        /\ Api("connect", NoTcpRet)
        /\ socket' = [socket EXCEPT ![c] = "socket"]
        /\ link' = [link EXCEPT ![c] = "dialing"]
        /\ stale' = [stale EXCEPT ![c] = messageBuffer[c]]
        /\ wrote' = [wrote EXCEPT ![c] = <<>>]
        /\ heard' = [heard EXCEPT ![c] = 0]
        /\ served' = [served EXCEPT ![c] = <<>>]
        /\ seen' = [seen EXCEPT ![c] = 0]
        /\ climsgs' = [climsgs EXCEPT ![c] = <<>>]
        /\ UNCHANGED <<clients, up, down, messageBuffer, srvmsgs>>

\* the server's 'connection' event (lines 392-397)
TcpAccept ==
    \E c \in ClientIds :
        /\ link[c] \in {"dialing", "dialing-ended"}
        /\ Event("connection")
        /\ clients' = clients \cup {c}
        /\ link' = [link EXCEPT ![c] =
                        IF @ = "dialing" THEN "up" ELSE "ending"]
        /\ srvmsgs' = [srvmsgs EXCEPT ![c] = <<>>]
        /\ UNCHANGED <<socket, up, down, messageBuffer, wrote, heard, served,
                       seen, stale, climsgs>>

\* client.send(object) (lines 598-622)
TcpSend ==
    \E c \in ClientIds, messageData \in ClientPayloads :
        IF socket[c] = "null"
        THEN /\ Api("send", TcpBool(c, FALSE))
             /\ UNCHANGED <<clients, socket, link, up, down, messageBuffer,
                            wrote, heard, served, seen, stale, srvmsgs,
                            climsgs>>
        ELSE /\ Api("send", TcpBool(c, TRUE))
             /\ up' = [up EXCEPT ![c] = @ \o Frame(messageData)]
             /\ wrote' = [wrote EXCEPT ![c] = Append(@, messageData)]
             /\ UNCHANGED <<clients, socket, link, down, messageBuffer,
                            heard, served, seen, stale, srvmsgs, climsgs>>

\* client.disconnect() (lines 624-629)
TcpDisconnect ==
    \E c \in ClientIds :
        /\ Api("disconnect", NoTcpRet)
        /\ socket' = [socket EXCEPT ![c] = "null"]
        /\ link' = [link EXCEPT ![c] =
                        IF socket[c] = "null" THEN @
                        ELSE IF @ = "dialing" THEN "dialing-ended"
                        ELSE "ending"]
        /\ UNCHANGED <<clients, up, down, messageBuffer, wrote, heard,
                       served, seen, stale, srvmsgs, climsgs>>

\* the 'data' event of the server's socket for client c (lines 399-408):
\* the next n bytes the client wrote
ServerData ==
    \E c \in ClientIds :
        /\ link[c] \in {"up", "ending"}
        /\ \E n \in 1..Len(up[c]) :
              /\ srvmsgs' = [srvmsgs EXCEPT ![c] =
                                @ \o parseMessages(SubSeq(up[c], 1, n), 0, <<>>)]
              /\ up' = [up EXCEPT ![c] = SubSeq(@, n + 1, Len(@))]
              /\ heard' = [heard EXCEPT ![c] = @ + n]
        /\ Event("serverData")
        /\ UNCHANGED <<clients, socket, link, down, messageBuffer, wrote,
                       served, seen, stale, climsgs>>

\* the 'close' event of the server's socket for client c (lines 410-414),
\* after everything the client wrote was read
ServerClose ==
    \E c \in ClientIds :
        /\ link[c] = "ending" /\ up[c] = <<>>
        /\ Event("serverClose")
        /\ clients' = clientsDelete(clients, c)
        /\ link' = [link EXCEPT ![c] = "none"]
        /\ down' = [down EXCEPT ![c] = <<>>]
        /\ UNCHANGED <<socket, up, messageBuffer, wrote, heard, served, seen,
                       stale, srvmsgs, climsgs>>

\* the 'data' event of client c's socket (lines 553-556): the next n bytes
\* written to it
ClientData ==
    \E c \in ClientIds :
        /\ link[c] \in {"up", "ending"}
        /\ \E n \in 1..Len(down[c]) :
              LET r == processMessages(
                           messageBuffer[c] \o SubSeq(down[c], 1, n), 0, <<>>)
              IN  /\ messageBuffer' = [messageBuffer EXCEPT ![c] = r.rest]
                  /\ climsgs' = [climsgs EXCEPT ![c] = @ \o r.msgs]
                  /\ down' = [down EXCEPT ![c] = SubSeq(@, n + 1, Len(@))]
                  /\ seen' = [seen EXCEPT ![c] = @ + n]
        /\ Event("clientData")
        /\ UNCHANGED <<clients, socket, link, up, wrote, heard, served,
                       stale, srvmsgs>>

\* server.sendToClient(clientId, object) (lines 470-486, 504-516)
SendToClient ==
    \E clientId \in ClientIds, messageData \in ServerPayloads :
        IF clientId \notin clients
        THEN /\ Api("sendToClient", TcpBool(clientId, FALSE))
             /\ UNCHANGED <<clients, socket, link, up, down, messageBuffer,
                            wrote, heard, served, seen, stale, srvmsgs,
                            climsgs>>
        ELSE /\ Api("sendToClient", TcpBool(clientId, TRUE))
             /\ down' = [down EXCEPT ![clientId] = @ \o Frame(messageData)]
             /\ served' = [served EXCEPT ![clientId] = Append(@, messageData)]
             /\ UNCHANGED <<clients, socket, link, up, messageBuffer, wrote,
                            heard, seen, stale, srvmsgs, climsgs>>

\* server.broadcast(object) (lines 488-502)
Broadcast ==
    \E messageData \in ServerPayloads :
        /\ Api("broadcast", NoTcpRet)
        /\ down' = [c \in ClientIds |->
                        IF c \in clients THEN down[c] \o Frame(messageData)
                        ELSE down[c]]
        /\ served' = [c \in ClientIds |->
                          IF c \in clients THEN Append(served[c], messageData)
                          ELSE served[c]]
        /\ UNCHANGED <<clients, socket, link, up, messageBuffer, wrote,
                       heard, seen, stale, srvmsgs, climsgs>>

\* a 'clientConnected' listener writes a frame to the socket it was given
\* (line 397)
RawWrite ==
    \E c \in clients, messageData \in RawPayloads :
        /\ Api("write", NoTcpRet)
        /\ down' = [down EXCEPT ![c] = @ \o Frame(messageData)]
        /\ served' = [served EXCEPT ![c] = Append(@, messageData)]
        /\ UNCHANGED <<clients, socket, link, up, messageBuffer, wrote,
                       heard, seen, stale, srvmsgs, climsgs>>

\* server.getConnectedClients() (lines 522-524)
GetConnectedClients ==
    /\ Api("getConnectedClients", TcpIds(clients))
    /\ UNCHANGED <<clients, socket, link, up, down, messageBuffer, wrote,
                   heard, served, seen, stale, srvmsgs, climsgs>>

NextTCP ==
    \/ TcpConnect \/ TcpAccept \/ TcpSend \/ TcpDisconnect
    \/ ServerData \/ ServerClose \/ ClientData
    \/ SendToClient \/ Broadcast \/ RawWrite \/ GetConnectedClients

SpecTCP == InitTCP /\ [][NextTCP]_vars

----------------------------------------------------------------------------
(* Vocabulary of the properties.  The operands and the heap before the     *)
(* call are read from tgt, src and pre, the outcome from ret, ex and heap. *)

\* the last operation was the call recursiveAssign(tgt, src)
Called == op = "recursiveAssign"

\* the call returned, and changed no object
Untouched == ex = None /\ heap = pre

\* a property as an assignment or an object literal creates it
Ordinary(p) == ~p.has \/ p = DataProp(p.val)

\* every object was extensible and had ordinary properties only
AllOrdinary ==
    \A a \in DOMAIN pre :
        pre[a].ext /\ \A k \in Keys : Ordinary(pre[a].props[k])

\* the objects the slots of object a refer to
Kids(h, a) ==
    {h[a].props[k].val.v : k \in {j \in Keys : IsRef(h[a].props[j].val)}}

\* the objects reachable from the objects in S
RECURSIVE ReachFrom(_, _)
ReachFrom(h, S) ==
    LET N == S \cup UNION {Kids(h, a) : a \in S} IN
    IF N = S THEN S ELSE ReachFrom(h, N)

\* the objects reachable through the slots of a
Below(h, a) == ReachFrom(h, Kids(h, a))

\* before the call neither operand's graph had a cycle, and neither
\* operand could be reached through a slot of the target or of the source
Separate ==
    /\ \A a \in Below(pre, src.v) \cup {src.v} : a \notin Below(pre, a)
    /\ \A a \in Below(pre, tgt.v) \cup {tgt.v} : a \notin Below(pre, a)
    /\ tgt.v \notin Below(pre, tgt.v) \cup Below(pre, src.v)
    /\ src.v \notin Below(pre, tgt.v)

\* the call merged the plain bag src key by key into the object tgt
PlainMerge ==
    /\ Called
    /\ IsRef(tgt) /\ IsRef(src) /\ tgt # src
    /\ pre[src.v].cls = "Object"
    /\ AllOrdinary
    /\ Separate

\* the value source k held before the call
Before(x, k) == pre[x.v].props[k].val

\* the value slot k holds after the call
After(x, k) == heap[x.v].props[k].val

----------------------------------------------------------------------------
(* C4.  Null terminality: recursiveAssign(x, null) returns null for every  *)
(* target x and changes nothing; a null under a key of the source bag      *)
(* replaces whatever the target held under that key.                       *)
NullTerminality ==
    /\ (Called /\ src = Null) => (Untouched /\ ret = Null)
    /\ PlainMerge =>
          \A k \in Keys :
              (pre[src.v].props[k].has /\ Before(src, k) = Null)
                  => (ex = None /\ heap[tgt.v].props[k].has /\ After(tgt, k) = Null)

NullTerminalityWitness ==
    \/ Called /\ src = Null /\ IsEntity(pre, tgt) /\ ret = Null
    \/ PlainMerge /\ \E k \in Keys :
          /\ pre[src.v].props[k].has /\ Before(src, k) = Null
          /\ IsRef(Before(tgt, k)) /\ After(tgt, k) = Null

(* C6.  Step 1 comes first: with the target undefined or null, or with a   *)
(* source that is not undefined and whose typeof differs from the          *)
(* target's, recursiveAssign returns the source itself and neither copies  *)
(* nor merges anything.                                                    *)
SourceWinsFirst ==
    (/\ Called
     /\ \/ tgt \in {Undef, Null}
        \/ (src # Undef /\ TypeOf(tgt) # TypeOf(src)))
        => (Untouched /\ ret = src)

SourceWinsFirstWitness ==
    /\ Called
    /\ \/ tgt = Null /\ IsEntity(pre, src)
       \/ tgt.k = "number" /\ IsEntity(pre, src)
       \/ tgt.k = "function" /\ IsRef(src) /\ pre[src.v].cls = "Object"
    /\ ret = src

(* C7.  Primitive replacement: for primitives of the same kind (boolean,   *)
(* number, string, bigint, symbol, function) recursiveAssign(p1, p2)       *)
(* returns p2.                                                             *)
PrimitiveReplacement ==
    (Called /\ tgt.k \in PrimKinds /\ src.k = tgt.k)
        => (Untouched /\ ret = src)

PrimitiveReplacementWitness ==
    Called /\ tgt.k = "symbol" /\ src.k = "symbol" /\ tgt # src /\ ret = src

(* C8.  List replacement: a source array is returned itself whatever the   *)
(* target is, and no object changes; under a key of the source bag the     *)
(* array takes the target's slot and the array the target held there is    *)
(* left as it was.                                                         *)
ListReplacement ==
    /\ (Called /\ IsRef(src) /\ pre[src.v].cls = "Array")
          => (Untouched /\ ret = src)
    /\ PlainMerge =>
          \A k \in Keys :
              (/\ pre[src.v].props[k].has
               /\ IsRef(Before(src, k))
               /\ pre[Before(src, k).v].cls = "Array")
                  => /\ ex = None
                     /\ After(tgt, k) = Before(src, k)
                     /\ heap[Before(src, k).v] = pre[Before(src, k).v]
                     /\ IsRef(Before(tgt, k))
                          => heap[Before(tgt, k).v] = pre[Before(tgt, k).v]

ListReplacementWitness ==
    \/ /\ Called /\ IsRef(src) /\ pre[src.v].cls = "Array"
       /\ IsRef(tgt) /\ pre[tgt.v].cls = "Array" /\ tgt # src /\ ret = src
    \/ /\ PlainMerge
       /\ \E k \in Keys :
            /\ IsRef(Before(src, k)) /\ pre[Before(src, k).v].cls = "Array"
            /\ IsRef(Before(tgt, k)) /\ pre[Before(tgt, k).v].cls = "Array"
            /\ Before(tgt, k) # Before(src, k)
            /\ After(tgt, k) = Before(src, k)

\* a non-entity whose constructor is a function not named Object
OpaqueBefore(x) == IsRef(x) /\ pre[x.v].cls \in {"Date", "Array"}

(* C9.  Opaque values are atomic: a source that is a non-entity object     *)
(* made by a constructor not named Object (a Date) is returned itself; its *)
(* properties are not walked and the target is not modified.               *)
OpaqueAtomic ==
    /\ (Called /\ OpaqueBefore(src)) => (Untouched /\ ret = src)
    /\ PlainMerge =>
          \A k \in Keys :
              (pre[src.v].props[k].has /\ OpaqueBefore(Before(src, k)))
                  => /\ ex = None
                     /\ After(tgt, k) = Before(src, k)
                     /\ IsRef(Before(tgt, k))
                          => heap[Before(tgt, k).v] = pre[Before(tgt, k).v]

OpaqueAtomicWitness ==
    \/ /\ Called /\ IsRef(src) /\ pre[src.v].cls = "Date"
       /\ IsRef(tgt) /\ pre[tgt.v].cls = "Object" /\ ret = src
    \/ /\ PlainMerge
       /\ \E k \in Keys :
            /\ IsRef(Before(src, k)) /\ pre[Before(src, k).v].cls = "Date"
            /\ IsRef(Before(tgt, k)) /\ pre[Before(tgt, k).v].cls = "Object"
            /\ After(tgt, k) = Before(src, k)

\* the operations that run the reconciliation engine
Engine == {"recursiveAssign", "deepAssign", "assign", "new", "copy"}

ProtectedSlotsSkipped ==
    /\ op \in Engine =>
          \A a \in DOMAIN pre : \A k \in Keys :
              heap[a].props[k] # pre[a].props[k]
                  => \/ ~pre[a].props[k].has
                     \/ (/\ ~pre[a].props[k].acc
                         /\ pre[a].props[k].enum
                         /\ pre[a].props[k].wr)
    /\ (Called /\ ex = "TypeError") => \E a \in DOMAIN pre : ~pre[a].ext

\* a source key met a protected slot of the target, which kept its value,
\* while the merge went on to the other key
ProtectedSlotsSkippedWitness ==
    /\ Called /\ ex = None /\ IsRef(tgt) /\ IsRef(src) /\ ret = tgt
    /\ LET p == pre[tgt.v].props["country"] IN
         /\ p.has /\ ~p.acc /\ p.enum /\ ~p.wr
         /\ pre[src.v].props["country"] = DataProp(Num(0))
         /\ p.val # Num(0)
         /\ heap[tgt.v].props["country"] = p
    /\ heap # pre

\* r is a new object of B's class holding B's truthy boolean, number and
\* string fields and nothing else: no object reachable from B is reachable
\* from it
IsolatedCopy(B, r) ==
    /\ IsRef(r) /\ r.v \notin DOMAIN pre
    /\ heap[r.v].cls = pre[B.v].cls
    /\ \A k \in Keys :
          /\ heap[r.v].props[k].has
               => (~IsRef(After(r, k)) /\ After(r, k) = Before(B, k))
          /\ (/\ pre[B.v].props[k] = DataProp(Before(B, k))
              /\ Before(B, k).k \in {"boolean", "number", "string"}
              /\ Before(B, k).v # 0)
               => heap[r.v].props[k].has

\* A and B are of different kinds: by their constructors' names, or else by
\* their classes
Differ(A, B, byName) ==
    IF byName
    THEN ConstructorName(pre[A.v].cls) # ConstructorName(pre[B.v].cls)
    ELSE pre[A.v].cls # pre[B.v].cls

\* the statement of cross-kind isolation under either reading of "kind"
Isolation(byName) ==
    /\ (Called /\ IsEntity(pre, tgt) /\ IsEntity(pre, src) /\ Differ(tgt, src, byName))
          => /\ ex = None
             /\ IsolatedCopy(src, ret)
             /\ \A a \in DOMAIN pre : heap[a] = pre[a]
    /\ PlainMerge =>
          \A k \in Keys :
              (/\ pre[src.v].props[k].has
               /\ IsEntity(pre, Before(tgt, k))
               /\ IsEntity(pre, Before(src, k))
               /\ Differ(Before(tgt, k), Before(src, k), byName))
                  => /\ ex = None
                     /\ IsolatedCopy(Before(src, k), After(tgt, k))
                     /\ heap[Before(tgt, k).v] = pre[Before(tgt, k).v]
                     /\ heap[Before(src, k).v] = pre[Before(src, k).v]
    /\ (/\ op = "mutate"
        /\ IsEntity(pre, tgt) /\ IsEntity(pre, src) /\ Differ(tgt, src, byName)
        /\ IsRef(ret) /\ heap[ret.v] # pre[ret.v])
          => heap[src.v] = pre[src.v]

(* C3, as stated.  Cross-kind isolation: when the target (or a slot of     *)
(* the target) holds an entity A and the source value is an entity B of a  *)
(* different class, reconciliation yields a new object made by B.copy(),   *)
(* not B itself; A is not mutated, and mutating the new object afterwards  *)
(* does not change B.                                                      *)
CrossKindIsolation == Isolation(FALSE)

(* C3, amended.  The same for an entity B whose constructor name differs   *)
(* from A's: two classes of the same name are not isolated.                *)
CrossNameIsolation == Isolation(TRUE)

CrossNameIsolationWitness ==
    \/ /\ PlainMerge
       /\ \E k \in Keys :
            /\ IsEntity(pre, Before(tgt, k)) /\ IsEntity(pre, Before(src, k))
            /\ Differ(Before(tgt, k), Before(src, k), TRUE)
            /\ IsolatedCopy(Before(src, k), After(tgt, k))
    \/ /\ op = "mutate"
       /\ IsEntity(pre, tgt) /\ IsEntity(pre, src) /\ Differ(tgt, src, TRUE)
       /\ IsRef(ret) /\ heap[ret.v] # pre[ret.v]
       /\ heap[src.v] = pre[src.v]

\* the value rv of a slot after a merge that met the target's value av
\* (Undef for a missing key) and the source's value bv there
SlotRule(av, bv, rv) ==
    IF av \in {Undef, Null} THEN rv = bv
    ELSE IF bv = Undef THEN rv = av
    ELSE IF TypeOf(av) # TypeOf(bv) THEN rv = bv
    ELSE IF ~IsRef(bv) THEN rv = bv
    ELSE IF pre[bv.v].cls \in {"Array", "Date"} THEN rv = bv
    ELSE IF pre[bv.v].cls \in EntityClasses /\ Differ(av, bv, TRUE)
         THEN IsolatedCopy(bv, rv)
         ELSE rv = av

\* the source's value bv is merged key by key into the target's object av
MergesInPlace(av, bv) ==
    /\ IsRef(av) /\ IsRef(bv)
    /\ pre[bv.v].cls \notin {"Array", "Date"}
    /\ ~(pre[bv.v].cls \in EntityClasses /\ Differ(av, bv, TRUE))

\* object A after the call is object A before it with the keys of object
\* B reconciled onto it: no other key has changed and none is gone
MergedInto(A, B) ==
    \A k \in Keys :
        IF pre[B].props[k].has
        THEN /\ heap[A].props[k] = DataProp(heap[A].props[k].val)
             /\ SlotRule(pre[A].props[k].val, pre[B].props[k].val,
                         heap[A].props[k].val)
        ELSE heap[A].props[k] = pre[A].props[k]

\* the call merged the plain bag src into the plain bag tgt
PlainBags == PlainMerge /\ pre[tgt.v].cls = "Object"

AssignReturnsReceiver ==
    (/\ op = "assign" /\ ex = None
     /\ IsRef(src) /\ tgt # src
     /\ (IsEntity(pre, src) \/ pre[src.v].cls = "Object")
     /\ AllOrdinary /\ Separate)
        => /\ ret = tgt
           /\ \A k \in Keys :
                 ~pre[src.v].props[k].has
                     => heap[tgt.v].props[k] = pre[tgt.v].props[k]

----------------------------------------------------------------------------
(* Conversion to and from JSON data *)

\* p is an own, enumerable data property holding a boolean, a number or a
\* string
Whitelisted(p) ==
    /\ p.has /\ ~p.acc /\ p.enum
    /\ p.val.k \in {"boolean", "number", "string"}

\* 0, the empty string and false
Falsy(x) == x.k \in {"boolean", "number", "string"} /\ x.v = 0

\* r is a plain bag made by the last operation
FreshBag(r) ==
    /\ IsRef(r) /\ r.v \notin DOMAIN pre
    /\ heap[r.v].cls = "Object"

(* C11.  Base toJSON whitelist: the result of toJSON() contains key k with *)
(* value v exactly when the entity has an own, enumerable, non-accessor    *)
(* property k whose value v is a boolean, a number or a string; any other  *)
(* property produces no key.                                               *)
ToJSONWhitelist ==
    (op = "toJSON" /\ ex = None) =>
        /\ FreshBag(ret)
        /\ \A k \in Keys :
              IF Whitelisted(pre[src.v].props[k])
              THEN heap[ret.v].props[k] = DataProp(Before(src, k))
              ELSE ~heap[ret.v].props[k].has

FromJSONWhitelist ==
    (op = "fromJSON" /\ ex = None) =>
        /\ IsRef(ret) /\ ret.v \notin DOMAIN pre
        /\ heap[ret.v].cls = arg
        /\ \A k \in Keys :
              IF Whitelisted(pre[src.v].props[k])
              THEN heap[ret.v].props[k] = DataProp(Before(src, k))
              ELSE ~heap[ret.v].props[k].has

\* the JSON view of object a in heap h, as toJSON builds it
JSONOf(h, a) == toJSON(h, a).h[toJSON(h, a).r.v].props

(* C14.  Copy preserves the JSON view: for any entity e, e.copy().toJSON() *)
(* deep-equals e.toJSON(), and copying the copy again gives the same JSON. *)
CopyPreservesJSON ==
    (op = "copy" /\ ex = None) =>
        /\ IsRef(ret) /\ ret.v \notin DOMAIN pre
        /\ JSONOf(heap, ret.v) = JSONOf(pre, src.v)
        /\ LET again == copy(heap, ret.v, MaxDepth) IN
              /\ again.ex = None
              /\ IsRef(again.r) /\ again.r # ret
              /\ JSONOf(again.h, again.r.v) = JSONOf(pre, src.v)

\* an entity with a string field, a falsy field or a non-primitive field
\* was copied and the copy's JSON has the string
CopyPreservesJSONWitness ==
    /\ op = "copy" /\ ex = None
    /\ Before(src, "country").k = "string" /\ Before(src, "country").v # 0
    /\ JSONOf(heap, ret.v)["country"] = DataProp(Before(src, "country"))
    /\ \/ Falsy(Before(src, "address"))
       \/ IsRef(Before(src, "address"))

\* every field of the entity src was a boolean, a number or a string
PrimitiveFields ==
    \A k \in Keys :
        \/ ~pre[src.v].props[k].has
        \/ /\ pre[src.v].props[k] = DataProp(Before(src, k))
           /\ Before(src, k).k \in {"boolean", "number", "string"}

(* C15.  copy() of an entity with primitive fields returns an object that  *)
(* is not the original, is an instance of the same concrete class, is      *)
(* deep-equal to the original and shares no object with it; the original   *)
(* is left unchanged.                                                      *)
CopyDeepEqual ==
    (op = "copy" /\ ex = None /\ PrimitiveFields) =>
        /\ IsRef(ret) /\ ret.v \notin DOMAIN pre
        /\ heap[ret.v].cls = pre[src.v].cls
        /\ \A k \in Keys : heap[ret.v].props[k] = pre[src.v].props[k]
        /\ \A a \in DOMAIN pre : heap[a] = pre[a]

----------------------------------------------------------------------------
(* The collection transformer *)

\* the items of the argument that are truthy and accepted by the validator
KeptItems ==
    SelectSeq(xin.items,
              LAMBDA x : /\ x \notin {Undef, Null} /\ ~Falsy(x)
                         /\ (xval.fn => x \in xval.ok))

\* x is an object with a toJSON method: an entity or a Date
HasToJSON(x) == IsRef(x) /\ pre[x.v].cls \in EntityClasses \cup {"Date"}

\* p is a property that the base converters pass on
PassedOn(p) == Whitelisted(p) /\ ~Falsy(p.val)

\* r is the JSON form of the item x
ConvertedTo(x, r) ==
    IF pre[x.v].cls = "Date" THEN r = Str(1)
    ELSE /\ FreshBag(r)
         /\ \A k \in Keys :
               IF PassedOn(pre[x.v].props[k])
               THEN heap[r.v].props[k] = DataProp(pre[x.v].props[k].val)
               ELSE ~heap[r.v].props[k].has

\* r is the instance of class arg made from the item x
ConvertedFrom(x, r) ==
    /\ IsRef(r) /\ r.v \notin DOMAIN pre
    /\ heap[r.v].cls = arg
    /\ \A k \in Keys :
          IF IsRef(x) /\ PassedOn(pre[x.v].props[k])
          THEN heap[r.v].props[k] = DataProp(pre[x.v].props[k].val)
          ELSE ~heap[r.v].props[k].has

\* the result is the array of the converted forms of the kept items, in
\* their order
ConvertedInOrder ==
    /\ ex = None
    /\ xout.arr
    /\ Len(xout.items) = Len(KeptItems)
    /\ \A i \in 1..Len(KeptItems) :
          IF op = "to"
          THEN HasToJSON(KeptItems[i]) /\ ConvertedTo(KeptItems[i], xout.items[i])
          ELSE ConvertedFrom(KeptItems[i], xout.items[i])

----------------------------------------------------------------------------
(* Failure *)

(* C17.  Fail-soft: assign, deepAssign and recursiveAssign never raise an  *)
(* exception, whatever the target and the source are; here for operands    *)
(* that are objects whose graphs have no cycle.                            *)
FailSoft ==
    (/\ op \in {"recursiveAssign", "deepAssign", "assign"}
     /\ IsRef(tgt) /\ IsRef(src)
     /\ Separate)
        => ex = None

----------------------------------------------------------------------------
(* SQLite persistence *)

\* the instance the last SQLite operation was called on, and its row
Self == inst[who]
SelfRow == db[Self.id.v]

\* the row of the instance r holds r's name and record_state, and r's age
\* when r has one
RowMirrors(row, r) ==
    /\ row.has
    /\ row.id = r.id
    /\ row.name = r.name
    /\ row.record_state = r.record_state
    /\ r.age # Undef => row.age = r.age

(* C18.  Persistence mirrors the instance: after insert(db), any changes   *)
(* to the instance's fields, and then update(db), getById(db, id) returns  *)
(* a record whose id is unchanged and whose persisted fields (including    *)
(* record_state) equal the instance's current field values, with           *)
(* updated_at not earlier than created_at.                                 *)
UpdateMirrorsInstance ==
    (/\ op = "update" /\ ex = None
     /\ Self.id.v \in live
     /\ \A i \in DOMAIN inst : i # who => inst[i].id # Self.id) =>
        LET rec == getById(db, Self.id.v) IN
        /\ rec # Undef
        /\ rec.id = Self.id
        /\ rec.name = Self.name
        /\ rec.record_state = Self.record_state
        /\ Self.age # Undef => rec.age = Self.age
        /\ rec.updated_at.v >= rec.created_at.v

(* C19.  save(db) inserts a row when no row with the instance's id exists  *)
(* and updates the existing row otherwise; after a save the one row with   *)
(* that id holds the values of the instance saved last.                    *)
SaveHoldsLastValues ==
    (op = "save" /\ ex = None /\ Self.id.v \in live) =>
        RowMirrors(SelfRow, Self)

(* C20.  Deletion: after softDelete(db) the instance has record_state      *)
(* DELETED and its row, if it was inserted, is still returned by getById   *)
(* with record_state DELETED; after delete(db) getById for that id returns *)
(* undefined and exists(db) returns false; exists(db) is true exactly      *)
(* between a successful insert and a hard delete.                          *)
DeletionLifecycle ==
    /\ (op = "softDelete" /\ ex = None) =>
          /\ Self.record_state = DELETED
          /\ Self.id.v \in live =>
                /\ getById(db, Self.id.v) # Undef
                /\ getById(db, Self.id.v).record_state = DELETED
    /\ (op = "delete" /\ ex = None) =>
          /\ getById(db, Self.id.v) = Undef
          /\ ~exists(db, Self)
    /\ \A i \in DOMAIN inst : exists(db, inst[i]) <=> inst[i].id.v \in live
    /\ op = "exists" => got = Bool(IF Self.id.v \in live THEN 1 ELSE 0)

\* an instance inserted as ACTIVE at time 1 was soft deleted at time 2 and
\* its row is still there, DELETED
DeletionLifecycleWitness ==
    /\ op = "softDelete" /\ ex = None
    /\ Self.id.v \in live
    /\ SelfRow.created_at = ISO(1) /\ SelfRow.updated_at = ISO(2)
    /\ SelfRow.record_state = DELETED
    /\ inst[3 - who].id # Self.id
    /\ exists(db, Self)

\* the keys known to be stored that start with the prefix p (all of them
\* when no prefix is given)
StoredUnder(sv, p) ==
    {key \in StorageKeys : sv[key].has /\ startsWith(key, p.p)}

Range(q) == {q[i] : i \in 1..Len(q)}

\* the store is what the saves, removes and clears so far make it
StoreAsSaved ==
    /\ \A key \in StorageKeys : HasItem(store, key) <=> saved[key].has
    /\ op = "exists" => lsout = OutBool(saved[lskey.p].has)
    /\ (op = "load" /\ saved[lskey.p].kind = "object") =>
          /\ lsout.k = "instance"
          /\ entityToJSON(lsout.items[1]) = saved[lskey.p].json[1]
    /\ op = "getKeys" =>
          /\ Range(lsout.keys) = StoredUnder(saved, lskey)
          /\ Len(lsout.keys) = Cardinality(Range(lsout.keys))

\* clear(prefix) returns the number of keys it covers
ClearCounts ==
    op' = "clear" => lsout'.n = Cardinality(StoredUnder(saved, lskey'))

(* C21.  ProtoObjectLocalStorage behaves as a key-value store: in a        *)
(* browser, after any sequence of save, remove and clear(prefix) calls,    *)
(* exists(k) is true exactly when k was saved and has not since been       *)
(* removed or cleared by a prefix it starts with; load(k) after            *)
(* save(k, obj) returns an instance whose toJSON() equals obj.toJSON();    *)
(* getKeys(prefix) returns exactly the stored keys starting with prefix    *)
(* (all keys when no prefix); clear(prefix) removes exactly those keys,    *)
(* returns their count and leaves all other keys stored.                   *)
KeyValueStore ==
    /\ [](env = "browser" => StoreAsSaved)
    /\ [][env = "browser" => ClearCounts]_vars

\* the value a method returns when it cannot do its work
FailureValue(o) ==
    CASE o \in {"save", "saveArray", "remove", "exists"} -> OutBool(FALSE)
      [] o \in {"load", "loadArray"} -> OutUndefined
      [] o = "getKeys" -> OutKeys(<<>>)
      [] OTHER -> OutCount(0)

StorageOps ==
    {"save", "saveArray", "remove", "exists", "load", "loadArray",
     "getKeys", "clear"}

\* the text stored under the key of the last call is not valid JSON
StoredGarbage ==
    /\ HasItem(store, lskey.p)
    /\ getItem(store, lskey.p).kind = "garbage"

FailsSoftly ==
    /\ ex = None
    /\ (op \in StorageOps /\ env \in {"node", "nostorage", "blocked"}) =>
          lsout = FailureValue(op)
    /\ (op \in {"save", "saveArray"} /\ env = "full") =>
          lsout = FailureValue(op)
    /\ (op \in {"load", "loadArray"} /\ StoredGarbage) =>
          lsout = FailureValue(op)

\* a save that failed changed nothing in the storage
FailedSaveKeeps ==
    (op' \in {"save", "saveArray"} /\ lsout' = OutBool(FALSE)) =>
        store' = store

(* C22.  ProtoObjectLocalStorage never throws: when window or              *)
(* window.localStorage is missing, when the stored text is not valid JSON, *)
(* or when the storage API throws, save/remove/exists return false,        *)
(* load/loadArray return undefined, getKeys returns [] and clear returns   *)
(* 0, and a failed save leaves the previously stored contents unchanged.   *)
StorageNeverThrows ==
    /\ []FailsSoftly
    /\ [][FailedSaveKeeps]_vars

\* in a browser, load found a text that is not JSON and returned undefined;
\* or the storage is full, holds an item, and a save returned false
StorageNeverThrowsWitness ==
    \/ /\ env = "browser" /\ op = "load" /\ StoredGarbage
       /\ lsout = OutUndefined /\ ex = None
    \/ /\ env = "full" /\ op = "save" /\ store # <<>>
       /\ lsout = OutBool(FALSE) /\ ex = None

(* C23.  Hash verification: for any entity, if h = generateHash(alg) and   *)
(* no data field of the entity changes afterwards, then verifyHash(h, alg) *)
(* returns true, however many times generateHash or verifyHash are called  *)
(* in between; if a data field changes, verifyHash(h, alg) returns false;  *)
(* getHash() returns the value of the most recent generateHash.            *)
HashVerifies ==
    /\ op = "verifyHash" =>
          (cout = Bool(1) <=> cobj.value = kept.value)
    /\ op \in {"generateHash", "generateAgain"} => getHash(cobj) = cout

\* the bytes a frame with this payload takes
FrameLen(payload) == HeaderLen + Len(payload)

\* how many of the frames ps[i], ps[i+1], ... lie wholly within n bytes
RECURSIVE WholeFrames(_, _, _)
WholeFrames(ps, i, n) ==
    IF i <= Len(ps) /\ FrameLen(ps[i]) <= n
    THEN 1 + WholeFrames(ps, i + 1, n - FrameLen(ps[i]))
    ELSE 0

\* the byte stream the frames ps[i], ps[i+1], ... make
RECURSIVE StreamOf(_, _)
StreamOf(ps, i) ==
    IF i > Len(ps) THEN <<>> ELSE Frame(ps[i]) \o StreamOf(ps, i + 1)

\* of a stream of the frames ps of which n bytes were read: the payloads of
\* the complete frames that are JSON, and the bytes after the last
\* complete frame
MessagesIn(ps, n) == SelectSeq(SubSeq(ps, 1, WholeFrames(ps, 1, n)), IsJSON)
TrailingBytes(ps, n) ==
    LET whole == SubSeq(ps, 1, WholeFrames(ps, 1, n)) IN
    SubSeq(StreamOf(ps, 1), Len(StreamOf(whole, 1)) + 1, n)

ServerDelivers ==
    \A c \in DOMAIN srvmsgs :
        link[c] \in {"up", "ending"} =>
            srvmsgs[c] = MessagesIn(wrote[c], heard[c])

(* C26.  ProtoObjectTCPServer client registry: getConnectedClients() is     *)
(* exactly the set of client ids whose socket has connected and not yet    *)
(* closed, empty before any connection; sendToClient returns false and     *)
(* writes nothing for an id outside that set; broadcast writes one frame   *)
(* to each registered socket and nothing, without throwing, when the set   *)
(* is empty; ProtoObjectTCPClient.send returns false whenever the client   *)
(* has no socket.                                                          *)
Connected == {c \in DOMAIN link : link[c] \in {"up", "ending"}}

RegistryExact ==
    /\ clients = Connected
    /\ op = "getConnectedClients" => tcpret = TcpIds(Connected)

UnknownClientGetsNothing ==
    (op' = "sendToClient" /\ tcpret'.id \notin Connected) =>
        tcpret'.b = FALSE /\ down' = down

BroadcastReachesAll ==
    op' = "broadcast" =>
        /\ ex' = None
        /\ \E messageData \in ServerPayloads :
              \A c \in DOMAIN down :
                  down'[c] = IF c \in Connected
                             THEN down[c] \o Frame(messageData)
                             ELSE down[c]

SendNeedsSocket ==
    op' = "send" =>
        /\ tcpret'.b = (socket[tcpret'.id] # "null")
        /\ socket[tcpret'.id] = "null" => up' = up

ClientRegistry ==
    /\ []RegistryExact
    /\ [][UnknownClientGetsNothing /\ BroadcastReachesAll
            /\ SendNeedsSocket]_vars

\* a client connected, wrote, disconnected and its socket closed; the
\* server then lists no client
ClientRegistryWitness ==
    /\ op = "getConnectedClients"
    /\ tcpret = TcpIds({})
    /\ \E c \in DOMAIN link :
          link[c] = "none" /\ wrote[c] # <<>> /\ srvmsgs[c] # <<>>

----------------------------------------------------------------------------
(* Sharing between the caller's data and the entity *)

\* slot p holds nothing: the key is missing, or holds undefined or null
AbsentSlot(p) == ~p.has \/ (p = DataProp(p.val) /\ p.val \in {Undef, Null})

\* x was a plain bag, an entity or an array before the call
NestedObject(x) ==
    IsRef(x) /\ pre[x.v].cls \in {"Object", "Array"} \cup EntityClasses

\* the entity the last construction made, or the last assign was called on
Receiver == IF op = "new" THEN ret ELSE tgt

\* an entity was constructed from, or assigned, the plain bag src, which
\* held an object under key k where the entity held nothing
AliasCase(k) ==
    /\ op \in {"new", "assign"} /\ ex = None
    /\ IsRef(src) /\ pre[src.v].cls = "Object"
    /\ pre[src.v].props[k] = DataProp(Before(src, k))
    /\ NestedObject(Before(src, k))
    /\ op = "assign" => (tgt # src /\ AbsentSlot(pre[tgt.v].props[k]))

\* bag a holds under key k a plain bag other than B
NamesBag(a, k, B) ==
    /\ heap[a].cls = "Object"
    /\ heap[a].props[k] = DataProp(heap[a].props[k].val)
    /\ IsRef(heap[a].props[k].val)
    /\ heap[a].props[k].val # B
    /\ heap[heap[a].props[k].val.v].cls = "Object"

\* assigning bag a to entity e afterwards writes the primitives bag a
\* holds under k onto object B, which stays in the slot
LaterAssignReaches(e, a, k, B) ==
    LET n == heap[a].props[k].val.v
        r == assign(heap, e.v, Ref(a), MaxDepth)
    IN  r.ex = None =>
            /\ r.h[e.v].props[k].val = B
            /\ \A j \in Keys :
                  (/\ heap[n].props[j] = DataProp(heap[n].props[j].val)
                   /\ IsPrimitive(heap[n].props[j].val)
                   /\ Ordinary(heap[B.v].props[j]))
                      => r.h[B.v].props[j].val = heap[n].props[j].val

\* a second entity of class c constructed from src holds B under k as well
SecondShares(c, k, B) ==
    LET two == Construct(heap, c, src, MaxDepth) IN
    two.ex = None =>
        /\ IsRef(two.r) /\ two.r.v \notin DOMAIN heap
        /\ two.h[two.r.v].props[k].val = B

(* C27.  Aliasing through an absent slot: when an entity is constructed    *)
(* from, or assigned, data whose value at key k is a plain bag, an entity  *)
(* or an array while the entity's slot k is undefined or null, the slot    *)
(* afterwards holds the caller's very same object, not a copy; a later     *)
(* assign that merges into slot k changes the object the caller passed     *)
(* in, and two entities built from the same nested object share it.        *)
AbsentSlotAliases ==
    \A k \in Keys :
        AliasCase(k) =>
            LET B == Before(src, k) IN
            /\ IsEntity(heap, Receiver)
            /\ After(Receiver, k) = B
            /\ After(src, k) = B
            /\ \A a \in DOMAIN heap :
                  NamesBag(a, k, B) => LaterAssignReaches(Receiver, a, k, B)
            /\ \A c \in EntityClasses : SecondShares(c, k, B)

\* an entity built from a bag holds the bag's nested bag itself; a second
\* entity built from it would hold it too, and a later assign of another
\* bag would change a field of it
AbsentSlotAliasesWitness ==
    \E k \in Keys :
        /\ op = "new" /\ AliasCase(k)
        /\ pre[Before(src, k).v].cls = "Object"
        /\ After(Receiver, k) = Before(src, k)
        /\ Construct(heap, "FactoryA", src, MaxDepth).ex = None
        /\ \E a \in DOMAIN heap :
              /\ NamesBag(a, k, Before(src, k))
              /\ LET r == assign(heap, Receiver.v, Ref(a), MaxDepth) IN
                    /\ r.ex = None
                    /\ r.h[Before(src, k).v] # heap[Before(src, k).v]

----------------------------------------------------------------------------
----------------------------------------------------------------------------
(* C29.  Termination: recursiveAssign, and so construction, assign and     *)
(* deepAssign, terminates for every target and every finite source object  *)
(* graph: each recursive call descends one level into the source, and no   *)
(* pair of target and source makes the recursion go on until the stack is  *)
(* exhausted.                                                              *)
Terminates == op \in Engine => ex # "RangeError"

----------------------------------------------------------------------------
\* the outcome of calling tgt.assign(src) once more in the present state
Again == assign(heap, tgt.v, src, MaxDepth)

(* C30.  assign is idempotent: for any entity e and any source d, a second *)
(* e.assign(d) with the same d leaves e in exactly the state the first     *)
(* produced (same keys, same primitive values, the same object in every    *)
(* slot), and assign does not modify d.                                    *)
AssignIdempotent ==
    (op = "assign" /\ ex = None) =>
        /\ Again.ex = None
        /\ Again.h[tgt.v] = heap[tgt.v]
        /\ IsRef(src) =>
              /\ heap[src.v] = pre[src.v]
              /\ Again.h[src.v] = heap[src.v]

============================================================================
